---- MODULE Spec2Model ----
(***************************************************************************)
(* A model of the SSIMULACRA2 crate: the input normalizer, the multiscale  *)
(* pyramid of Ssim2Reference::new / compare and of the one-shot pipeline,  *)
(* the recursive-Gaussian blur, the per-scale reducers and the final score.*)
(*                                                                         *)
(* Arithmetic.  The code computes in f32/f64.  The model computes in       *)
(* fixed point: the integer v stands for the real v / FX.  Every product   *)
(* and quotient is rounded to the nearest multiple of 1/FX, as the code    *)
(* rounds each operation to the nearest float; additions are exact.  NaN   *)
(* (powf of a negative base) is the value NaN.                             *)
(***************************************************************************)
EXTENDS Integers, Sequences, FiniteSets, TLC

\* ------------------------------------------------------------------------
\* Fixed-point arithmetic
\* ------------------------------------------------------------------------

\* The value 1.0.
FX == 10000

\* a / b rounded to nearest (a >= 0, b > 0).
RoundDiv(a, b) == (a + (b \div 2)) \div b

Abs(a) == IF a < 0 THEN -a ELSE a
Sign(a) == IF a < 0 THEN -1 ELSE 1

\* a * b in fixed point for a, b >= 0; split so that no intermediate exceeds
\* 32 bits.
MulAbs(a, b) ==
    ((a \div FX) * b) + ((a % FX) * (b \div FX)) + RoundDiv((a % FX) * (b % FX), FX)

\* a * b in fixed point, rounded to nearest.
Mul(a, b) == Sign(a) * Sign(b) * MulAbs(Abs(a), Abs(b))

\* a / b in fixed point (b > 0), rounded to nearest.
Div(a, b) == Sign(a) * (((Abs(a) \div b) * FX) + RoundDiv((Abs(a) % b) * FX, b))

\* The function f on 1..n as a sequence (every element evaluated once).
Vec(f, n) == SubSeq(f, 1, n)

Max(a, b) == IF a >= b THEN a ELSE b
Min(a, b) == IF a <= b THEN a ELSE b
\* r to the n-th power, n >= 1, by repeated multiplication (f64::powi).
RECURSIVE powi(_, _)
powi(r, n) == IF n <= 1 THEN r ELSE Mul(powi(r, n - 1), r)

\* powi(r, n), except that a power already above x is not multiplied further
\* by an r >= 1.0 (it stays above x).
RECURSIVE powi_upto(_, _, _)
powi_upto(r, n, x) ==
    IF n <= 1 THEN r
    ELSE LET p == powi_upto(r, n - 1, x)
         IN  IF p > x /\ r >= FX THEN p ELSE Mul(p, r)

\* The least r in lo..hi whose n-th power reaches x (bisection; the power is
\* monotone in r).
RECURSIVE RootSearch(_, _, _, _)
RootSearch(x, n, lo, hi) ==
    IF lo >= hi THEN lo
    ELSE LET mid == (lo + hi) \div 2
         IN  IF powi_upto(mid, n, x) >= x THEN RootSearch(x, n, lo, mid)
                                          ELSE RootSearch(x, n, mid + 1, hi)

\* The first of hi, 2 hi, 4 hi, ... whose n-th power reaches x.
RECURSIVE RootBound(_, _, _)
RootBound(x, n, hi) == IF powi_upto(hi, n, x) >= x THEN hi ELSE RootBound(x, n, 2 * hi)

\* The n-th root of x >= 0 (n >= 1): exactly 0.0 at 0.0 and 1.0 at 1.0.
Root(x, n) == RootSearch(x, n, 0, RootBound(x, n, FX))

sqrt(x) == Root(x, 2)
cbrtf(x) == Root(x, 3)

\* The value of f64 NaN: a value apart from every number the model computes.
NaN == -(2^30)

\* x.powf(1.0 / n) for n = 3 * (number of scales).  A negative base gives NaN;
\* n = 0 makes the exponent +inf, and the base is then the empty product 1.0.
powf_inv(x, n) ==
    IF x = NaN THEN NaN
    ELSE IF x < 0 THEN NaN
    ELSE IF n = 0 THEN (IF x < FX THEN 0 ELSE x)
    ELSE Root(x, n)

\* ------------------------------------------------------------------------
\* Images, colour transform, planes
\* ------------------------------------------------------------------------

\* A LinearRgb image: data is row-major, one <<r, g, b>> per pixel.
LinearRgb(data, width, height) == [width |-> width, height |-> height, data |-> data]

\* downscale_by_2 dividing each block by the number of its pixels that lie
\* inside the image.
downscale_by_2_live_count(in_data) ==
    LET in_w == in_data.width
        in_h == in_data.height
        out_w == (in_w + 2 - 1) \div 2
        out_h == (in_h + 2 - 1) \div 2
        Pix(x, y, c) == IF x >= in_w \/ y >= in_h THEN 0
                        ELSE in_data.data[y * in_w + x + 1][c]
        Sum(ox, oy, c) == Pix(2 * ox, 2 * oy, c) + Pix(2 * ox + 1, 2 * oy, c)
                          + Pix(2 * ox, 2 * oy + 1, c) + Pix(2 * ox + 1, 2 * oy + 1, c)
        Live(ox, oy) == (IF 2 * ox + 1 < in_w THEN 2 ELSE 1) * (IF 2 * oy + 1 < in_h THEN 2 ELSE 1)
        Out(ox, oy) == <<RoundDiv(Sum(ox, oy, 1), Live(ox, oy)),
                         RoundDiv(Sum(ox, oy, 2), Live(ox, oy)),
                         RoundDiv(Sum(ox, oy, 3), Live(ox, oy))>>
    IN  LinearRgb(Vec([i \in 1..(out_w * out_h) |-> Out((i - 1) % out_w, (i - 1) \div out_w)],
                      out_w * out_h),
                  out_w, out_h)

\* downscale_by_2 with floor-rounded output size (clipped blocks dropped).
downscale_by_2_floor(in_data) ==
    LET in_w == in_data.width
        in_h == in_data.height
        out_w == Max(in_w \div 2, 1)
        out_h == Max(in_h \div 2, 1)
        Pix(x, y, c) == IF x >= in_w \/ y >= in_h THEN 0
                        ELSE in_data.data[y * in_w + x + 1][c]
        Sum(ox, oy, c) == Pix(2 * ox, 2 * oy, c) + Pix(2 * ox + 1, 2 * oy, c)
                          + Pix(2 * ox, 2 * oy + 1, c) + Pix(2 * ox + 1, 2 * oy + 1, c)
        Out(ox, oy) == <<RoundDiv(Sum(ox, oy, 1), 4), RoundDiv(Sum(ox, oy, 2), 4),
                         RoundDiv(Sum(ox, oy, 3), 4)>>
    IN  LinearRgb(Vec([i \in 1..(out_w * out_h) |-> Out((i - 1) % out_w, (i - 1) \div out_w)],
                      out_w * out_h),
                  out_w, out_h)

\* Box 2x downscale: ceil-rounded size, clipped blocks still divided by 4.
downscale_by_2(in_data) ==
    LET in_w == in_data.width
        in_h == in_data.height
        out_w == (in_w + 2 - 1) \div 2
        out_h == (in_h + 2 - 1) \div 2
        Pix(x, y, c) == IF x >= in_w \/ y >= in_h THEN 0
                        ELSE in_data.data[y * in_w + x + 1][c]
        Sum(ox, oy, c) == Pix(2 * ox, 2 * oy, c) + Pix(2 * ox + 1, 2 * oy, c)
                          + Pix(2 * ox, 2 * oy + 1, c) + Pix(2 * ox + 1, 2 * oy + 1, c)
        Out(ox, oy) == <<RoundDiv(Sum(ox, oy, 1), 4), RoundDiv(Sum(ox, oy, 2), 4),
                         RoundDiv(Sum(ox, oy, 3), 4)>>
    IN  LinearRgb(Vec([i \in 1..(out_w * out_h) |-> Out((i - 1) % out_w, (i - 1) \div out_w)],
                      out_w * out_h),
                  out_w, out_h)

\* Opsin absorbance matrix (row-major) and bias, in fixed point.
OPSIN_ABSORBANCE_MATRIX == <<3000, 6220, 780, 2300, 6920, 780, 2434, 2048, 5518>>
K_B0 == 38

opsin_absorbance_scalar(rgb) ==
    LET Row(i) == Mul(OPSIN_ABSORBANCE_MATRIX[3 * (i - 1) + 1], rgb[1])
                  + Mul(OPSIN_ABSORBANCE_MATRIX[3 * (i - 1) + 2], rgb[2])
                  + Mul(OPSIN_ABSORBANCE_MATRIX[3 * (i - 1) + 3], rgb[3]) + K_B0
    IN  <<Row(1), Row(2), Row(3)>>

mixed_to_xyb_scalar(mixed) ==
    <<Mul(FX \div 2, mixed[1] - mixed[2]), Mul(FX \div 2, mixed[1] + mixed[2]), mixed[3]>>

\* Linear RGB -> XYB for one pixel.
linear_rgb_to_xyb(pix) ==
    LET absorbance_bias == -cbrtf(K_B0)
        m == opsin_absorbance_scalar(pix)
    IN  mixed_to_xyb_scalar(<<cbrtf(Max(m[1], 0)) + absorbance_bias,
                              cbrtf(Max(m[2], 0)) + absorbance_bias,
                              cbrtf(Max(m[3], 0)) + absorbance_bias>>)

\* Positivity remap: B' = (B - Y) + 0.55, X' = 14 X + 0.42, Y' = Y + 0.01.
make_positive_xyb(pix) ==
    <<Mul(pix[1], 14 * FX) + 4200, pix[2] + 100, (pix[3] - pix[2]) + 5500>>

\* Xyb::from(img) followed by make_positive_xyb, as one XYB pixel sequence.
PositiveXyb(img) ==
    Vec([i \in 1..Len(img.data) |-> make_positive_xyb(linear_rgb_to_xyb(img.data[i]))],
        Len(img.data))

\* De-interleave into three planes, row-major order preserved.
xyb_to_planar(xyb) ==
    LET Plane(c) == Vec([i \in 1..Len(xyb) |-> xyb[i][c]], Len(xyb))
    IN  <<Plane(1), Plane(2), Plane(3)>>

\* out[c][i] = img1[c][i] * img2[c][i] over the zipped length; the rest of
\* out is left as it was.
image_multiply(img1, img2, out) ==
    LET Plane(c) == Vec([i \in 1..Len(out[c]) |->
                            IF i <= Len(img1[c]) /\ i <= Len(img2[c])
                            THEN Mul(img1[c][i], img2[c][i]) ELSE out[c][i]],
                        Len(out[c]))
    IN  <<Plane(1), Plane(2), Plane(3)>>

\* ------------------------------------------------------------------------
\* Recursive Gaussian blur (SimdGaussian, the default backend of Blur::new)
\* ------------------------------------------------------------------------

RADIUS == 5

\* Coefficients of the poles 1, 3, 5 (in fixed point).
MUL_IN == <<553, -588, 130>>
MUL_PREV == <<19021, 11756, 0>>
MUL_PREV2 == <<-FX, -FX, -FX>>
VERT_MUL_IN == <<553, -588, 130>>
\* VERT_MUL_PREV with the signs of MUL_PREV.
VERT_MUL_PREV_unnegated == MUL_PREV

VERT_MUL_PREV == <<-19021, -11756, 0>>

\* input[i] for a 0-based index i, zero outside the sequence.
Tap(input, i) == IF i >= 0 /\ i < Len(input) THEN input[i + 1] ELSE 0

\* horizontal_step with the pole 1 reading the prev2 of the pole 3.
horizontal_step_crossed_poles(sum, prev, prev2) ==
    LET Out(k) == Mul(MUL_PREV[k], prev[k])
                  + (Mul(MUL_PREV2[k], prev2[IF k = 1 THEN 2 ELSE k]) + Mul(sum, MUL_IN[k]))
    IN  <<Out(1), Out(2), Out(3)>>

\* One step of the horizontal recurrence: the new out_k of the three poles.
horizontal_step(sum, prev, prev2) ==
    LET Out(k) == Mul(MUL_PREV[k], prev[k])
                  + (Mul(MUL_PREV2[k], prev2[k]) + Mul(sum, MUL_IN[k]))
    IN  <<Out(1), Out(2), Out(3)>>

\* One step of the vertical recurrence.
vertical_step(sum, prev, prev2) ==
    LET Out(k) == Mul(sum, VERT_MUL_IN[k]) - (Mul(prev[k], VERT_MUL_PREV[k]) + prev2[k])
    IN  <<Out(1), Out(2), Out(3)>>

\* The scan of one row from step n on: out holds the samples written so far.
RECURSIVE horizontal_scan(_, _, _, _, _)
horizontal_scan(input, n, prev, prev2, out) ==
    IF n >= Len(input) THEN out
    ELSE LET o == horizontal_step(Tap(input, n - RADIUS - 1) + Tap(input, n + RADIUS - 1),
                                  prev, prev2)
         IN  horizontal_scan(input, n + 1, o, prev,
                             IF n >= 0 THEN Append(out, o[1] + o[2] + o[3]) ELSE out)

horizontal_row(input) == horizontal_scan(input, (-RADIUS) + 1, <<0, 0, 0>>, <<0, 0, 0>>, <<>>)

\* All rows of a plane, row by row.
horizontal_pass(input, width) ==
    LET height == Len(input) \div width
        rows == Vec([y \in 1..height |->
                        horizontal_row(SubSeq(input, (y - 1) * width + 1, y * width))],
                    height)
    IN  Vec([i \in 1..(width * height) |->
                rows[((i - 1) \div width) + 1][((i - 1) % width) + 1]],
            width * height)

\* The scan of one column of the temp plane.
RECURSIVE vertical_scan(_, _, _, _, _)
vertical_scan(column, n, prev, prev2, out) ==
    IF n >= Len(column) THEN out
    ELSE LET o == vertical_step(Tap(column, n - RADIUS - 1) + Tap(column, n + RADIUS - 1),
                                prev, prev2)
         IN  vertical_scan(column, n + 1, o, prev,
                           IF n >= 0 THEN Append(out, o[1] + o[2] + o[3]) ELSE out)

\* Every column of the plane (each column belongs to one group of the chunked
\* pass and is scanned with the same recurrence).
vertical_pass_simd_chunked(input, width, height) ==
    LET cols == Vec([x \in 1..width |->
                        vertical_scan(Vec([y \in 1..height |-> input[(y - 1) * width + x]],
                                          height),
                                      (-RADIUS) + 1, <<0, 0, 0>>, <<0, 0, 0>>, <<>>)],
                    width)
    IN  Vec([i \in 1..(width * height) |->
                cols[((i - 1) % width) + 1][((i - 1) \div width) + 1]],
            width * height)

\* SimdGaussian::blur_single_plane: horizontal pass into temp, then vertical.
blur_single_plane(plane, width, height) ==
    vertical_pass_simd_chunked(horizontal_pass(plane, width), width, height)

\* Blur::blur of the three planes with the Blur's current width and height.
blur(img, width, height) ==
    <<blur_single_plane(img[1], width, height), blur_single_plane(img[2], width, height),
      blur_single_plane(img[3], width, height)>>

\* ------------------------------------------------------------------------
\* Per-scale reducers and the final score
\* ------------------------------------------------------------------------

C2 == 9

\* a / b for any b /= 0 (the maps divide by sums that may have either sign).
fdiv(a, b) == IF b > 0 THEN Div(a, b) ELSE -Div(a, -b)

RECURSIVE SumTo(_, _)
SumTo(f, n) == IF n = 0 THEN 0 ELSE f[n] + SumTo(f, n - 1)

\* The number of samples that zipped chunks_exact(width) rows of planes of
\* the given lengths visit.
Zipped(lens, width) ==
    width * (CHOOSE r \in {l \div width : l \in lens} : \A l \in lens : r <= l \div width)

\* Six aggregates: for each channel the mean of d and the quartic mean of d.
ssim_map(width, height, m1, m2, s11, s22, s12) ==
    LET D(c, i) ==
            LET mu1 == m1[c][i]
                mu2 == m2[c][i]
                mu11 == Mul(mu1, mu1)
                mu22 == Mul(mu2, mu2)
                mu12 == Mul(mu1, mu2)
                mu_diff == mu1 - mu2
                num_m == FX - Mul(mu_diff, mu_diff)
                num_s == 2 * (s12[c][i] - mu12) + C2
                denom_s == (s11[c][i] - mu11) + (s22[c][i] - mu22) + C2
            IN  Max(FX - fdiv(Mul(num_m, num_s), denom_s), 0)
        Sums(c) ==
            LET n == Zipped({Len(m1[c]), Len(m2[c]), Len(s11[c]), Len(s22[c]), Len(s12[c])},
                            width)
                d == Vec([i \in 1..n |-> D(c, i)], n)
            IN  <<SumTo(d, n), SumTo(Vec([i \in 1..n |-> powi(d[i], 4)], n), n)>>
        sum1 == <<Sums(1), Sums(2), Sums(3)>>
    IN  Vec([j \in 1..6 |->
                IF j % 2 = 1 THEN RoundDiv(sum1[(j + 1) \div 2][1], width * height)
                ELSE sqrt(sqrt(RoundDiv(sum1[j \div 2][2], width * height)))],
            6)

\* Twelve aggregates: for each channel the mean and the quartic mean of the
\* artifact and of the detail_lost map.
edge_diff_map(width, height, img1, mu1, img2, mu2) ==
    LET D1(c, i) == fdiv(FX + Abs(img2[c][i] - mu2[c][i]), FX + Abs(img1[c][i] - mu1[c][i])) - FX
        Sums(c) ==
            LET n == Zipped({Len(img1[c]), Len(img2[c]), Len(mu1[c]), Len(mu2[c])}, width)
                d1 == Vec([i \in 1..n |-> D1(c, i)], n)
                artifact == Vec([i \in 1..n |-> Max(d1[i], 0)], n)
                detail_lost == Vec([i \in 1..n |-> Max(-d1[i], 0)], n)
            IN  <<SumTo(artifact, n), SumTo(Vec([i \in 1..n |-> powi(artifact[i], 4)], n), n),
                  SumTo(detail_lost, n),
                  SumTo(Vec([i \in 1..n |-> powi(detail_lost[i], 4)], n), n)>>
        sum1 == <<Sums(1), Sums(2), Sums(3)>>
    IN  Vec([j \in 1..12 |->
                LET avg == RoundDiv(sum1[((j - 1) \div 4) + 1][((j - 1) % 4) + 1],
                                    width * height)
                IN  IF j % 2 = 1 THEN avg ELSE sqrt(sqrt(avg))],
            12)

MsssimScale(avg_ssim, avg_edgediff) == [avg_ssim |-> avg_ssim, avg_edgediff |-> avg_edgediff]

\* The products of Msssim::score over the scales, in the order of the loops.
RECURSIVE ssim_product(_, _)
ssim_product(scales, n) ==
    IF n = 0 THEN FX
    ELSE LET s == scales[n].avg_ssim
         IN  Mul(Mul(Mul(ssim_product(scales, n - 1), s[2]), s[4]), s[6])

RECURSIVE ssim_max_product(_, _)
ssim_max_product(scales, n) ==
    IF n = 0 THEN FX
    ELSE LET e == scales[n].avg_edgediff
         IN  Mul(Mul(Mul(ssim_max_product(scales, n - 1), Min(e[2], e[4])),
                     Min(e[6], e[8])), Min(e[10], e[12]))

\* a < b on f64: false when either side is NaN.
FLess(a, b) == a /= NaN /\ b /= NaN /\ a < b

\* a.max(b) on f64 for a number b: a NaN a gives b.
FMax(a, b) == IF a = NaN THEN b ELSE Max(a, b)

\* score with + 100.0 for - 100.0.
score_plus_100(scales) ==
    LET ssim0 == powf_inv(ssim_product(scales, Len(scales)), Len(scales) * 3)
        ssim_max == powf_inv(ssim_max_product(scales, Len(scales)), Len(scales) * 3)
        ssim == IF FLess(ssim0, ssim_max) THEN ssim_max ELSE ssim0
    IN  FMax(IF ssim = NaN THEN NaN ELSE ssim * 100 + 100 * FX, -500 * FX)

\* score without the clamp `if ssim < ssim_max`.
score_unclamped(scales) ==
    LET ssim == powf_inv(ssim_product(scales, Len(scales)), Len(scales) * 3)
    IN  FMax(IF ssim = NaN THEN NaN ELSE ssim * 100 - 100 * FX, -500 * FX)

\* score with the exponent 1 / (6 * 3) whatever the number of scales.
score_six_scales(scales) ==
    LET ssim0 == powf_inv(ssim_product(scales, Len(scales)), 6 * 3)
        ssim_max == powf_inv(ssim_max_product(scales, Len(scales)), 6 * 3)
        ssim == IF FLess(ssim0, ssim_max) THEN ssim_max ELSE ssim0
    IN  FMax(IF ssim = NaN THEN NaN ELSE ssim * 100 - 100 * FX, -500 * FX)

\* Msssim::score
score(scales) ==
    LET ssim0 == powf_inv(ssim_product(scales, Len(scales)), Len(scales) * 3)
        ssim_max == powf_inv(ssim_max_product(scales, Len(scales)), Len(scales) * 3)
        ssim == IF FLess(ssim0, ssim_max) THEN ssim_max ELSE ssim0
    IN  FMax(IF ssim = NaN THEN NaN ELSE ssim * 100 - 100 * FX, -500 * FX)

\* ------------------------------------------------------------------------
\* The multiscale pyramid: Ssim2Reference::new, compare, and the one-shot
\* pipeline (compute_with_timing)
\* ------------------------------------------------------------------------

NUM_SCALES == 6

\* The first size that is not too small.
MIN_SIZE == 8

\* The loop's early exit: `if width < 8 || height < 8 { break; }`.
\* TooSmall testing the width alone.
TooSmall_width_only(width, height) == width < MIN_SIZE

TooSmall(width, height) == width < MIN_SIZE \/ height < MIN_SIZE

\* Vec::truncate
truncate(v, len) == IF len < Len(v) THEN SubSeq(v, 1, len) ELSE v

\* vec![0.0f32; n]
zeros(n) == Vec([i \in 1..n |-> 0], n)

\* Blur::new(width, height) and Blur::shrink_to(width, height): the pixel
\* pipeline reads only the Blur's width and height.
Blur_new(width, height) == [width |-> width, height |-> height]
shrink_to(b, width, height) == [b EXCEPT !.width = width, !.height = height]

ScaleData(img1_planar, mu1, sigma1_sq) ==
    [img1_planar |-> img1_planar, mu1 |-> mu1, sigma1_sq |-> sigma1_sq]

Ok(v) == [ok |-> TRUE, value |-> v]
Err(e) == [ok |-> FALSE, error |-> e]

\* new_iteration with the downscaled image not kept: every scale after the
\* first downscales the image of scale 0.
new_iteration_from_scale_0(scale, l) ==
    LET img1 == IF scale > 0 THEN downscale_by_2(l.img) ELSE l.img
        width == IF scale > 0 THEN img1.width ELSE l.width
        height == IF scale > 0 THEN img1.height ELSE l.height
        mul0 == <<truncate(l.mul[1], width * height), truncate(l.mul[2], width * height),
                 truncate(l.mul[3], width * height)>>
        blur0 == shrink_to(l.blur, width, height)
        img1_planar == xyb_to_planar(PositiveXyb(img1))
        mu1 == blur(img1_planar, blur0.width, blur0.height)
        mul1 == image_multiply(img1_planar, img1_planar, mul0)
        sigma1_sq == blur(mul1, blur0.width, blur0.height)
    IN  [img |-> l.img, width |-> width, height |-> height, mul |-> mul1, blur |-> blur0,
         scales |-> Append(l.scales, ScaleData(img1_planar, mu1, sigma1_sq))]

\* One iteration of the loop of Ssim2Reference::new (after the break test):
\* the locals l after the iteration `scale`.
new_iteration(scale, l) ==
    LET img1 == IF scale > 0 THEN downscale_by_2(l.img) ELSE l.img
        width == IF scale > 0 THEN img1.width ELSE l.width
        height == IF scale > 0 THEN img1.height ELSE l.height
        mul0 == <<truncate(l.mul[1], width * height), truncate(l.mul[2], width * height),
                 truncate(l.mul[3], width * height)>>
        blur0 == shrink_to(l.blur, width, height)
        img1_planar == xyb_to_planar(PositiveXyb(img1))
        mu1 == blur(img1_planar, blur0.width, blur0.height)
        mul1 == image_multiply(img1_planar, img1_planar, mul0)
        sigma1_sq == blur(mul1, blur0.width, blur0.height)
    IN  [img |-> img1, width |-> width, height |-> height, mul |-> mul1, blur |-> blur0,
         scales |-> Append(l.scales, ScaleData(img1_planar, mu1, sigma1_sq))]

\* compare_iteration with the product p1 * p2 left out: sigma12 is blurred
\* from the buffer that still holds p2 * p2.
compare_iteration_stale_product(scale_idx, scale_data, l) ==
    LET img2 == IF scale_idx > 0 THEN downscale_by_2(l.img) ELSE l.img
        width == IF scale_idx > 0 THEN img2.width ELSE l.width
        height == IF scale_idx > 0 THEN img2.height ELSE l.height
        mul0 == <<truncate(l.mul[1], width * height), truncate(l.mul[2], width * height),
                 truncate(l.mul[3], width * height)>>
        blur0 == shrink_to(l.blur, width, height)
        img2_planar == xyb_to_planar(PositiveXyb(img2))
        mu2 == blur(img2_planar, blur0.width, blur0.height)
        mul1 == image_multiply(img2_planar, img2_planar, mul0)
        sigma2_sq == blur(mul1, blur0.width, blur0.height)
        sigma12 == blur(mul1, blur0.width, blur0.height)
        avg_ssim == ssim_map(width, height, scale_data.mu1, mu2, scale_data.sigma1_sq,
                             sigma2_sq, sigma12)
        avg_edgediff == edge_diff_map(width, height, scale_data.img1_planar, scale_data.mu1,
                                      img2_planar, mu2)
    IN  [img |-> img2, width |-> width, height |-> height, mul |-> mul1, blur |-> blur0,
         msssim |-> Append(l.msssim, MsssimScale(avg_ssim, avg_edgediff))]

\* One iteration of the loop of Ssim2Reference::compare with the cached
\* scale_data: the locals l after the iteration scale_idx.
compare_iteration(scale_idx, scale_data, l) ==
    LET img2 == IF scale_idx > 0 THEN downscale_by_2(l.img) ELSE l.img
        width == IF scale_idx > 0 THEN img2.width ELSE l.width
        height == IF scale_idx > 0 THEN img2.height ELSE l.height
        mul0 == <<truncate(l.mul[1], width * height), truncate(l.mul[2], width * height),
                 truncate(l.mul[3], width * height)>>
        blur0 == shrink_to(l.blur, width, height)
        img2_planar == xyb_to_planar(PositiveXyb(img2))
        mu2 == blur(img2_planar, blur0.width, blur0.height)
        mul1 == image_multiply(img2_planar, img2_planar, mul0)
        sigma2_sq == blur(mul1, blur0.width, blur0.height)
        mul2 == image_multiply(scale_data.img1_planar, img2_planar, mul1)
        sigma12 == blur(mul2, blur0.width, blur0.height)
        avg_ssim == ssim_map(width, height, scale_data.mu1, mu2, scale_data.sigma1_sq,
                             sigma2_sq, sigma12)
        avg_edgediff == edge_diff_map(width, height, scale_data.img1_planar, scale_data.mu1,
                                      img2_planar, mu2)
    IN  [img |-> img2, width |-> width, height |-> height, mul |-> mul2, blur |-> blur0,
         msssim |-> Append(l.msssim, MsssimScale(avg_ssim, avg_edgediff))]

\* One iteration of the loop of compute_with_timing (after the break test):
\* the locals l after the iteration `scale`.
compute_with_timing_iteration(scale, l) ==
    LET img1 == IF scale > 0 THEN downscale_by_2(l.img1) ELSE l.img1
        img2 == IF scale > 0 THEN downscale_by_2(l.img2) ELSE l.img2
        width == IF scale > 0 THEN img1.width ELSE l.width
        height == IF scale > 0 THEN img2.height ELSE l.height
        mul0 == <<truncate(l.mul[1], width * height), truncate(l.mul[2], width * height),
                 truncate(l.mul[3], width * height)>>
        blur0 == shrink_to(l.blur, width, height)
        img1_planar == xyb_to_planar(PositiveXyb(img1))
        img2_planar == xyb_to_planar(PositiveXyb(img2))
        mul1 == image_multiply(img1_planar, img1_planar, mul0)
        sigma1_sq == blur(mul1, blur0.width, blur0.height)
        mul2 == image_multiply(img2_planar, img2_planar, mul1)
        sigma2_sq == blur(mul2, blur0.width, blur0.height)
        mul3 == image_multiply(img1_planar, img2_planar, mul2)
        sigma12 == blur(mul3, blur0.width, blur0.height)
        mu1 == blur(img1_planar, blur0.width, blur0.height)
        mu2 == blur(img2_planar, blur0.width, blur0.height)
        avg_ssim == ssim_map(width, height, mu1, mu2, sigma1_sq, sigma2_sq, sigma12)
        avg_edgediff == edge_diff_map(width, height, img1_planar, mu1, img2_planar, mu2)
    IN  [img1 |-> img1, img2 |-> img2, width |-> width, height |-> height,
         mul |-> mul3, blur |-> blur0,
         msssim |-> Append(l.msssim, MsssimScale(avg_ssim, avg_edgediff))]

\* The locals of compute_with_timing before its loop.
compute_with_timing_locals(img1, img2) ==
    [img1 |-> img1, img2 |-> img2, width |-> img1.width, height |-> img1.height,
     mul |-> <<zeros(img1.width * img1.height), zeros(img1.width * img1.height),
               zeros(img1.width * img1.height)>>,
     blur |-> Blur_new(img1.width, img1.height), msssim |-> <<>>]

\* ------------------------------------------------------------------------
\* The calls as a state machine
\* ------------------------------------------------------------------------

VARIABLES
    pc,       \* "idle", or the call that is running: "new", "compare", "oneshot"
    self,     \* the Ssim2Reference the caller holds (absent before the first new)
    given,    \* history: the inputs of the running call (or of the last one)
    l,        \* the locals of the running call
    scale,    \* the loop counter of the running call
    result,   \* what the last finished call returned
    seen      \* history: the result of one earlier score computation

vars == <<pc, self, given, l, scale, result, seen>>

\* An input of type T: LinearRgb::try_from(source) gives Ok(linear) or fails.
Source(linear) == [convertible |-> TRUE, linear |-> linear]
Unconvertible == [convertible |-> FALSE]

\* The test images of create_synthetic_images: a gradient [x, y, (x + y) / 2]
\* and its distortion [r * 0.95, g * 1.02, b * 0.98].
SourcePixel(i, width, height) ==
    LET x == Div(((i - 1) % width) * FX, width * FX)
        y == Div(((i - 1) \div width) * FX, height * FX)
    IN  <<x, y, Div(x + y, 2 * FX)>>

DistortedPixel(p) == <<Mul(p[1], 9500), Mul(p[2], 10200), Mul(p[3], 9800)>>

create_synthetic_source(width, height) ==
    LinearRgb(Vec([i \in 1..(width * height) |-> SourcePixel(i, width, height)],
                  width * height),
              width, height)

create_synthetic_distorted(width, height) ==
    LinearRgb(Vec([i \in 1..(width * height) |->
                      DistortedPixel(SourcePixel(i, width, height))],
                  width * height),
              width, height)

\* The pattern of gen_checkerboard: cells of `cell` pixels, alternately of
\* the colours a and b (gen_checkerboard itself uses white and black).
gen_checkerboard(width, height, cell, a, b) ==
    LinearRgb(Vec([i \in 1..(width * height) |->
                      IF ((((i - 1) % width) \div cell) + (((i - 1) \div width) \div cell)) % 2 = 0
                      THEN a ELSE b],
                  width * height),
              width, height)

NoReference == [some |-> FALSE]
NoLocals == [running |-> FALSE]
NoResult == [kind |-> "none"]

\* The locals of Ssim2Reference::new after its checks.
new_locals(img1) ==
    [img |-> img1, width |-> img1.width, height |-> img1.height,
     mul |-> <<zeros(img1.width * img1.height), zeros(img1.width * img1.height),
               zeros(img1.width * img1.height)>>,
     blur |-> Blur_new(img1.width, img1.height), scales |-> <<>>]

\* new_check with `&&` for `||`: only an image small both ways is refused.
new_check_both_small(source) ==
    IF ~source.convertible THEN Err("LinearRgbConversionFailed")
    ELSE IF source.linear.width < MIN_SIZE /\ source.linear.height < MIN_SIZE
         THEN Err("InvalidImageSize")
    ELSE Ok(source.linear)

\* The checks on entry of Ssim2Reference::new: the error, or the image img1.
new_check(source) ==
    IF ~source.convertible THEN Err("LinearRgbConversionFailed")
    ELSE IF source.linear.width < MIN_SIZE \/ source.linear.height < MIN_SIZE
         THEN Err("InvalidImageSize")
    ELSE Ok(source.linear)

\* The entry of Ssim2Reference::new: the error it returns, or its locals.
new_entry(source) ==
    LET img1 == new_check(source) IN IF img1.ok THEN Ok(new_locals(img1.value)) ELSE img1

\* new_continues with the range 0..=NUM_SCALES.
new_continues_inclusive(s, width, height) == s <= NUM_SCALES /\ ~TooSmall(width, height)

\* The loop of new goes on: `for scale in 0..NUM_SCALES` has not run out and
\* the size has not fallen under 8.
new_continues(s, width, height) == s < NUM_SCALES /\ ~TooSmall(width, height)

\* compare_locals with the records of the call before kept in msssim.
compare_locals_kept_records(img2) ==
    [img |-> img2, width |-> img2.width, height |-> img2.height,
     mul |-> <<zeros(img2.width * img2.height), zeros(img2.width * img2.height),
               zeros(img2.width * img2.height)>>,
     blur |-> Blur_new(img2.width, img2.height),
     msssim |-> IF result.kind = "compare" THEN result.msssim ELSE <<>>]

\* The locals of Ssim2Reference::compare after its checks.
compare_locals(img2) ==
    [img |-> img2, width |-> img2.width, height |-> img2.height,
     mul |-> <<zeros(img2.width * img2.height), zeros(img2.width * img2.height),
               zeros(img2.width * img2.height)>>,
     blur |-> Blur_new(img2.width, img2.height), msssim |-> <<>>]

\* compare_entry with the height left out of the dimension check.
compare_entry_width_only(ref, distorted) ==
    IF ~distorted.convertible THEN Err("LinearRgbConversionFailed")
    ELSE IF distorted.linear.width /= ref.original_width
         THEN Err("NonMatchingImageDimensions")
    ELSE Ok(compare_locals(distorted.linear))

\* The entry of Ssim2Reference::compare on the reference ref.
compare_entry(ref, distorted) ==
    IF ~distorted.convertible THEN Err("LinearRgbConversionFailed")
    ELSE IF distorted.linear.width /= ref.original_width
            \/ distorted.linear.height /= ref.original_height
         THEN Err("NonMatchingImageDimensions")
    ELSE Ok(compare_locals(distorted.linear))

\* The inputs new is given: the 8x8 gradient, a 7x8 image, and an input
\* whose conversion fails.
References ==
    {Source(create_synthetic_source(MIN_SIZE, MIN_SIZE)),
     Source(create_synthetic_source(MIN_SIZE - 1, MIN_SIZE)),
     Unconvertible}

\* The inputs compare is given: those, the distorted 8x8 gradient, an 8x8
\* red and blue checkerboard and an 8x9 image.
Distortions ==
    References \cup
    {Source(create_synthetic_distorted(MIN_SIZE, MIN_SIZE)),
     Source(gen_checkerboard(MIN_SIZE, MIN_SIZE, 2, <<FX, 0, 0>>, <<0, 0, FX>>)),
     Source(create_synthetic_distorted(MIN_SIZE, MIN_SIZE + 1))}

\* The pairs compute_with_timing is run on: same-sized images of at least 8x8.
Pairs ==
    {p \in References \X Distortions :
        /\ p[1].convertible /\ p[2].convertible
        /\ p[1].linear.width = p[2].linear.width
        /\ p[1].linear.height = p[2].linear.height
        /\ ~TooSmall(p[1].linear.width, p[1].linear.height)}

\* A finished call: what it was given, what it returned, and (history) the
\* scale records behind a returned score.
Returned(kind, source, distorted, value, msssim) ==
    [kind |-> kind, source |-> source, distorted |-> distorted, value |-> value,
     msssim |-> msssim]

\* A call returns: the caller may keep the score for a later comparison.
Finish(r) ==
    /\ pc' = "idle"
    /\ l' = NoLocals
    /\ scale' = 0
    /\ result' = r
    /\ \/ seen' = seen
       \/ r.kind \in {"compare", "oneshot"} /\ r.value.ok /\ seen' = r

Init ==
    /\ pc = "idle"
    /\ self = NoReference
    /\ given = <<>>
    /\ l = NoLocals
    /\ scale = 0
    /\ result = NoResult
    /\ seen = NoResult

\* Ssim2Reference::new(source): conversion and size check, up to the loop.
New(source) ==
    /\ pc = "idle"
    /\ given' = <<source>>
    /\ LET e == new_entry(source)
       IN  IF e.ok
           THEN /\ pc' = "new"
                /\ l' = e.value
                /\ scale' = 0
                /\ result' = NoResult
                /\ UNCHANGED <<self, seen>>
           ELSE /\ Finish(Returned("new", source, source, e, <<>>))
                /\ UNCHANGED self

\* One iteration of the loop of new.
NewScale ==
    /\ pc = "new"
    /\ new_continues(scale, l.width, l.height)
    /\ l' = new_iteration(scale, l)
    /\ scale' = scale + 1
    /\ UNCHANGED <<pc, self, given, result, seen>>

\* The loop of new is over: Ok(Self { scales, original_width, original_height }).
NewReturn ==
    /\ pc = "new"
    /\ ~new_continues(scale, l.width, l.height)
    /\ self' = [some |-> TRUE, scales |-> l.scales,
                original_width |-> given[1].linear.width,
                original_height |-> given[1].linear.height,
                source |-> given[1]]
    /\ Finish(Returned("new", given[1], given[1], Ok(Len(l.scales)), <<>>))
    /\ UNCHANGED given

\* self.compare(distorted): conversion and dimension check, up to the loop.
Compare(distorted) ==
    /\ pc = "idle"
    /\ self.some
    /\ given' = <<self.source, distorted>>
    /\ LET e == compare_entry(self, distorted)
       IN  IF e.ok
           THEN /\ pc' = "compare"
                /\ l' = e.value
                /\ scale' = 0
                /\ result' = NoResult
                /\ UNCHANGED <<self, seen>>
           ELSE /\ Finish(Returned("compare", self.source, distorted, e, <<>>))
                /\ UNCHANGED self

\* One iteration of the loop of compare over self.scales.
CompareScale ==
    /\ pc = "compare"
    /\ scale < Len(self.scales)
    /\ ~TooSmall(l.width, l.height)
    /\ l' = compare_iteration(scale, self.scales[scale + 1], l)
    /\ scale' = scale + 1
    /\ UNCHANGED <<pc, self, given, result, seen>>

\* The loop of compare is over: Ok(msssim.score()).
CompareReturn ==
    /\ pc = "compare"
    /\ scale >= Len(self.scales) \/ TooSmall(l.width, l.height)
    /\ Finish(Returned("compare", given[1], given[2], Ok(score(l.msssim)), l.msssim))
    /\ UNCHANGED <<self, given>>

\* compute_with_timing(source, distorted), up to the loop.
OneShot(source, distorted) ==
    /\ pc = "idle"
    /\ given' = <<source, distorted>>
    /\ pc' = "oneshot"
    /\ l' = compute_with_timing_locals(source.linear, distorted.linear)
    /\ scale' = 0
    /\ result' = NoResult
    /\ UNCHANGED <<self, seen>>

\* One iteration of the loop of compute_with_timing.
OneShotScale ==
    /\ pc = "oneshot"
    /\ scale < NUM_SCALES
    /\ ~TooSmall(l.width, l.height)
    /\ l' = compute_with_timing_iteration(scale, l)
    /\ scale' = scale + 1
    /\ UNCHANGED <<pc, self, given, result, seen>>

\* The loop of compute_with_timing is over: msssim.score().
OneShotReturn ==
    /\ pc = "oneshot"
    /\ scale >= NUM_SCALES \/ TooSmall(l.width, l.height)
    /\ Finish(Returned("oneshot", given[1], given[2], Ok(score(l.msssim)), l.msssim))
    /\ UNCHANGED <<self, given>>

Next ==
    \/ \E source \in References : New(source)
    \/ NewScale
    \/ NewReturn
    \/ \E distorted \in Distortions : Compare(distorted)
    \/ CompareScale
    \/ CompareReturn
    \/ \E p \in Pairs : OneShot(p[1], p[2])
    \/ OneShotScale
    \/ OneShotReturn

Spec == Init /\ [][Next]_vars

\* ------------------------------------------------------------------------
\* Ssim2Reference::new on images of every size up to MaxDim: the images are
\* kept by their sizes alone, and so are the buffers and the cached planes
\* (by their lengths)
\* ------------------------------------------------------------------------

\* The largest width and height.
MaxDim == 230

\* The size of a LinearRgb image.
Sized(width, height) == [width |-> width, height |-> height]

\* The size of downscale_by_2(in_data).
downscale_by_2_size(in_data) ==
    Sized((in_data.width + 2 - 1) \div 2, (in_data.height + 2 - 1) \div 2)

\* The locals of Ssim2Reference::new after its checks.
new_locals_size(img1) ==
    [img |-> img1, width |-> img1.width, height |-> img1.height,
     mul |-> img1.width * img1.height,
     blur |-> Blur_new(img1.width, img1.height), scales |-> <<>>]

\* One iteration of the loop of new: the planes pushed have width * height
\* samples each.
new_iteration_size(s, loc) ==
    LET img1 == IF s > 0 THEN downscale_by_2_size(loc.img) ELSE loc.img
        width == IF s > 0 THEN img1.width ELSE loc.width
        height == IF s > 0 THEN img1.height ELSE loc.height
    IN  [img |-> img1, width |-> width, height |-> height,
         mul |-> Min(loc.mul, width * height),
         blur |-> shrink_to(loc.blur, width, height),
         scales |-> Append(loc.scales, width * height)]

\* The image a behaviour gives to new is any of the sizes up to MaxDim.
InitSize ==
    /\ pc = "idle"
    /\ self = NoReference
    /\ given \in {<<Source(Sized(width, height))>> : width \in 1..MaxDim, height \in 1..MaxDim}
    /\ l = NoLocals
    /\ scale = 0
    /\ result = NoResult
    /\ seen = NoResult

\* Ssim2Reference::new(source) on the image given (the one call of the
\* behaviour).
NewSize ==
    /\ pc = "idle"
    /\ result = NoResult
    /\ LET img1 == new_check(given[1])
       IN  IF img1.ok
           THEN /\ pc' = "new"
                /\ l' = new_locals_size(img1.value)
                /\ UNCHANGED result
           ELSE /\ pc' = "idle"
                /\ l' = NoLocals
                /\ result' = Returned("new", given[1], given[1], img1, <<>>)
    /\ UNCHANGED <<self, given, scale, seen>>

NewScaleSize ==
    /\ pc = "new"
    /\ new_continues(scale, l.width, l.height)
    /\ l' = new_iteration_size(scale, l)
    /\ scale' = scale + 1
    /\ UNCHANGED <<pc, self, given, result, seen>>

\* Ok(Self { .. }); num_scales() is then self.scales.len().
NewReturnSize ==
    /\ pc = "new"
    /\ ~new_continues(scale, l.width, l.height)
    /\ self' = [some |-> TRUE, scales |-> l.scales,
                original_width |-> given[1].linear.width,
                original_height |-> given[1].linear.height,
                source |-> given[1]]
    /\ pc' = "idle"
    /\ l' = NoLocals
    /\ scale' = 0
    /\ result' = Returned("new", given[1], given[1], Ok(Len(l.scales)), <<>>)
    /\ UNCHANGED <<given, seen>>

NextSize ==
    \/ NewSize
    \/ NewScaleSize
    \/ NewReturnSize

SpecSize == InitSize /\ [][NextSize]_vars

\* ------------------------------------------------------------------------
\* Msssim::score on lists of scale records
\* ------------------------------------------------------------------------

\* The longest list of scale records.
MaxRecords == 6

\* A scale record with the quartic means q of the three channels of the SSIM
\* map and the quartic means a (artifact) and d (detail_lost) of the edge
\* maps; the arithmetic means, which the score does not read, are halves.
Record(q, a, d) ==
    MsssimScale(<<q[1] \div 2, q[1], q[2] \div 2, q[2], q[3] \div 2, q[3]>>,
                <<a[1] \div 2, a[1], d[1] \div 2, d[1], a[2] \div 2, a[2], d[2] \div 2, d[2],
                  a[3] \div 2, a[3], d[3] \div 2, d[3]>>)

\* The records the lists are made of: the aggregates are never negative.
Records ==
    {Record(<<5000, 2500, 8000>>, <<100, 0, 300>>, <<200, 50, 100>>),
     Record(<<100, 200, 300>>, <<9000, 7000, FX>>, <<8000, 9500, FX>>),
     Record(<<0, 0, 0>>, <<0, 0, 0>>, <<0, 0, 0>>)}

InitScore ==
    /\ pc = "msssim"
    /\ self = NoReference
    /\ given = <<>>
    /\ l = [msssim |-> <<>>]
    /\ scale = 0
    /\ result = NoResult
    /\ seen = NoResult

\* msssim.scales.push(MsssimScale { avg_ssim, avg_edgediff })
Push(record) ==
    /\ pc = "msssim"
    /\ result = NoResult
    /\ Len(l.msssim) < MaxRecords
    /\ l' = [l EXCEPT !.msssim = Append(@, record)]
    /\ UNCHANGED <<pc, self, given, scale, result, seen>>

\* msssim.score()
Score ==
    /\ pc = "msssim"
    /\ result = NoResult
    /\ result' = Returned("score", <<>>, <<>>, Ok(score(l.msssim)), l.msssim)
    /\ UNCHANGED <<pc, self, given, l, scale, seen>>

NextScore ==
    \/ \E record \in Records : Push(record)
    \/ Score

SpecScore == InitScore /\ [][NextScore]_vars

\* ------------------------------------------------------------------------
\* The input normalizer: LinearRgbImage::new and the conversion into
\* yuvxyb::LinearRgb
\* ------------------------------------------------------------------------

\* The longest data vector and the largest width and height given to
\* LinearRgbImage::new.
MaxLen == 4
MaxSide == 2

\* A panic: the call does not return.
Panic(message) == [ok |-> FALSE, panic |-> message]

\* LinearRgbImage::new(data, width, height): the debug_assert_eq! is compiled
\* in only when debug_assertions is on.
LinearRgbImage_new(data, width, height, debug_assertions) ==
    IF debug_assertions /\ Len(data) /= width * height
    THEN Panic("assertion left == right failed")
    ELSE Ok([data |-> data, width |-> width, height |-> height])

\* yuvxyb::LinearRgb::from(img): LinearRgb::new refuses data whose length is
\* not width * height, and expect() panics on the refusal.
LinearRgb_from(img) ==
    IF Len(img.data) /= img.width * img.height
    THEN Panic("LinearRgbImage dimensions are always valid")
    ELSE Ok(LinearRgb(img.data, img.width, img.height))

\* The data vectors: up to MaxLen black or white pixels.
DataVectors ==
    UNION {[1..n -> {<<0, 0, 0>>, <<FX, FX, FX>>}] : n \in 0..MaxLen}

InitInput ==
    /\ pc = "input"
    /\ self = NoReference
    /\ given = <<>>
    /\ l = NoLocals
    /\ scale = 0
    /\ result = NoResult
    /\ seen = NoResult

\* let img = LinearRgbImage::new(data, width, height), in a debug or in a
\* release build.
ImageNew(data, width, height, debug_assertions) ==
    /\ pc = "input"
    /\ given' = <<data, width, height>>
    /\ LET img == LinearRgbImage_new(data, width, height, debug_assertions)
       IN  /\ result' = Returned("LinearRgbImage::new", given', given', img, <<>>)
           /\ l' = IF img.ok THEN [running |-> FALSE, img |-> img.value] ELSE NoLocals
    /\ UNCHANGED <<pc, self, scale, seen>>

\* yuvxyb::LinearRgb::from(img) on the image held.
IntoLinearRgb ==
    /\ pc = "input"
    /\ l /= NoLocals
    /\ result' = Returned("LinearRgb::from", given, given, LinearRgb_from(l.img), <<>>)
    /\ l' = NoLocals
    /\ UNCHANGED <<pc, self, given, scale, seen>>

NextInput ==
    \/ \E data \in DataVectors, width \in 0..MaxSide, height \in 0..MaxSide,
          debug_assertions \in BOOLEAN :
            ImageNew(data, width, height, debug_assertions)
    \/ IntoLinearRgb

SpecInput == InitInput /\ [][NextInput]_vars

\* ------------------------------------------------------------------------
\* Claims about the calls
\* ------------------------------------------------------------------------

\* The last call returned a score.
ScoreReturned == result.kind \in {"compare", "oneshot"} /\ result.value.ok

\* The last call and the remembered one were given the same images.
SameInputs == result.source = seen.source /\ result.distorted = seen.distorted

\* C1 (as claimed): scoring an image of at least 8x8 against itself returns
\* exactly 100.0.
C1_IdenticalScores100 ==
    (ScoreReturned /\ result.source = result.distorted) => result.value.value = 100 * FX

\* C2: new(ref) followed by compare(dist) returns the scale records and the
\* score of the one-shot computation on (ref, dist), and the other way round.
C2_CompareMatchesOneShot ==
    (ScoreReturned /\ seen.kind /= "none" /\ result.kind /= seen.kind /\ SameInputs)
        => (result.value = seen.value /\ result.msssim = seen.msssim)

\* C2 witness: a compare of a distorted image returned after the one-shot
\* computation on the same pair, with two scales and non-zero aggregates.
C2_Witness ==
    /\ ScoreReturned /\ result.kind = "compare" /\ seen.kind = "oneshot" /\ SameInputs
    /\ result.source /= result.distorted
    /\ Len(result.msssim) = 2
    /\ \A i \in 1..2 : \A c \in 1..3 : result.msssim[i].avg_ssim[2 * c] > 0

\* C3: a compare given an image whose width or height differs from the
\* reference's returns NonMatchingImageDimensions, and never enters its loop
\* (no scale is downscaled, blurred or recorded for it).
C3_MismatchRejectedOnEntry ==
    /\ (pc = "compare")
        => (given[2].linear.width = self.original_width
            /\ given[2].linear.height = self.original_height)
    /\ (result.kind = "compare" /\ result.distorted.convertible
        /\ (result.distorted.linear.width /= result.source.linear.width
            \/ result.distorted.linear.height /= result.source.linear.height))
        => (result.value = Err("NonMatchingImageDimensions") /\ result.msssim = <<>>)

\* C3 witness: a compare given an image of another height has returned.
C3_Witness ==
    /\ result.kind = "compare" /\ result.distorted.convertible
    /\ result.distorted.linear.width = result.source.linear.width
    /\ result.distorted.linear.height /= result.source.linear.height
    /\ result.value = Err("NonMatchingImageDimensions")

\* C7: every returned score is at most 100.0.
C7_ScoreAtMost100 == ScoreReturned => result.value.value <= 100 * FX

\* C7 witness: a score was returned for two different images.
C7_Witness ==
    ScoreReturned /\ result.source /= result.distorted /\ result.value.value > -100 * FX

C4_TooSmallOrStored ==
    (result.kind = "new" /\ result.source.convertible)
        => IF result.source.linear.width < 8 \/ result.source.linear.height < 8
           THEN result.value = Err("InvalidImageSize") /\ ~self.some
           ELSE /\ result.value.ok /\ result.value.value >= 1
                /\ self.some /\ Len(self.scales) = result.value.value

\* C4 witness: new has failed on an image 8 wide and 7 high.
C4_Witness ==
    /\ result.kind = "new"
    /\ result.source.linear.width = 8 /\ result.source.linear.height = 7
    /\ result.value = Err("InvalidImageSize")

\* C9: a reference built from an image of at least 8x8 has between 1 and 6
\* scales.
C9_NumScalesInRange ==
    (result.kind = "new" /\ result.value.ok)
        => (1 <= Len(self.scales) /\ Len(self.scales) <= 6)

\* C9 witness: a reference with 6 scales whose smallest scale is still at
\* least 8x8 (only the limit of 6 ended the loop).
C9_Witness ==
    /\ result.kind = "new" /\ result.value.ok
    /\ Len(self.scales) = 6
    /\ self.scales[6] >= 8 * 8
    /\ self.original_width >= 8 * 32 - 31 /\ self.original_height >= 8 * 32 - 31

\* The two products of the records behind the last score, and three times
\* their number.
ResultSsim == ssim_product(result.msssim, Len(result.msssim))
ResultSsimMax == ssim_max_product(result.msssim, Len(result.msssim))
ResultRoot == 3 * Len(result.msssim)

\* C6: the score is the greatest of -500, 100 (ssim - 1) and
\* 100 (ssim_max - 1), where ssim and ssim_max are the two products raised to
\* the power 1 / (3 L); so it is at least -500.
C6_ScoreIsFlooredMax ==
    (result.kind = "score")
        => LET v == result.value.value
               a == 100 * (powf_inv(ResultSsim, ResultRoot) - FX)
               b == 100 * (powf_inv(ResultSsimMax, ResultRoot) - FX)
           IN  /\ v >= -500 * FX /\ v >= a /\ v >= b
               /\ v \in {-500 * FX, a, b}

\* C6 witness: a score of two scales or more that the clamp decided (ssim_max
\* is the greater).
C6_Witness ==
    /\ result.kind = "score" /\ Len(result.msssim) >= 2
    /\ powf_inv(ResultSsimMax, ResultRoot) > powf_inv(ResultSsim, ResultRoot)
    /\ result.value.value = 100 * (powf_inv(ResultSsimMax, ResultRoot) - FX)

\* C10: with L >= 1 records, the s of the score 100 (s - 1) is the (3 L)-th
\* root of the greater product: the least value whose (3 L)-th power reaches
\* it.
C10_RootOfEmittedScales ==
    (result.kind = "score" /\ Len(result.msssim) >= 1)
        => LET x == Max(ResultSsim, ResultSsimMax)
               s == (result.value.value \div 100) + FX
           IN  /\ result.value.value = 100 * (s - FX)
               /\ powi_upto(s, ResultRoot, x) >= x
               /\ (s > 0) => (powi_upto(s - 1, ResultRoot, x) < x)

\* C10 witness: a score of fewer than 6 records whose 18th root would have
\* been another value.
C10_Witness ==
    /\ result.kind = "score"
    /\ Len(result.msssim) \in 1..5
    /\ LET x == Max(ResultSsim, ResultSsimMax)
       IN  x > 0 /\ result.value.value /= 100 * (Root(x, 18) - FX)

\* C5 (as claimed): LinearRgbImage::new given data whose length is not
\* width * height returns the InvalidDimensions error (it neither accepts the
\* input nor panics).
C5_MismatchReturnsInvalidDimensions ==
    (result.kind = "LinearRgbImage::new"
     /\ Len(result.source[1]) /= result.source[2] * result.source[3])
        => result.value = Err("InvalidDimensions")

\* A step of the loop of new that applies downscale_by_2 to the current image
\* (every iteration but the first).
DownscaleStep == pc = "new" /\ scale > 0 /\ scale' = scale + 1

\* C14 (as claimed): no downscale is applied to an image whose width or
\* height is at most 8.
C14_NoDownscaleAtMost8 == [][DownscaleStep => (l.width > 8 /\ l.height > 8)]_vars

\* C14 (amended): no downscale is applied to an image whose width or height
\* is under 8; the loop stops before it.  An image of width or height exactly
\* 8 is still downscaled.
C14_NoDownscaleUnder8 == [][DownscaleStep => (l.width >= 8 /\ l.height >= 8)]_vars

\* C14 witness: the loop has downscaled an image 8 wide to 4 wide (7 would
\* have stopped it) and recorded the 4-wide scale.
C14_Witness ==
    /\ pc = "new" /\ scale >= 2
    /\ l.width = 4 /\ l.height >= 8
    /\ Len(l.scales) = scale /\ l.scales[scale] = 4 * l.height

\* ------------------------------------------------------------------------
\* downscale_by_2 on small images
\* ------------------------------------------------------------------------

\* The largest width and height of the images downscaled.
MaxDownDim == 5

\* Pixel values are multiples of 4^5 / FX, so that the divisions by 4 of the
\* NUM_SCALES - 1 successive downscales are exact, as the f32 divisions by 4.0
\* are.
Quantum == 4 ^ (NUM_SCALES - 1)

\* vec![[v; 3]; width * height]: the uniform image of test_precompute_metadata.
uniform_image(v, width, height) ==
    LinearRgb(Vec([i \in 1..(width * height) |-> <<v, v, v>>], width * height), width, height)

\* An image whose pixels differ from their neighbours, channel by channel.
varied_image(width, height) ==
    LinearRgb(Vec([i \in 1..(width * height) |->
                      LET x == (i - 1) % width
                          y == (i - 1) \div width
                      IN  <<Quantum * ((x + (2 * y)) % 8), Quantum * (((3 * x) + y + 1) % 8),
                            Quantum * ((x * y) % 8)>>],
                  width * height),
              width, height)

\* The images of one size.
DownImages(width, height) ==
    {uniform_image(4 * Quantum, width, height), uniform_image(9 * Quantum, width, height),
     varied_image(width, height)}

InitDown ==
    /\ pc = "downscale"
    /\ self = NoReference
    /\ given \in UNION {{<<img>> : img \in DownImages(width, height)} :
                         <<width, height>> \in (1..MaxDownDim) \X (1..MaxDownDim)}
    /\ l = NoLocals
    /\ scale = 0
    /\ result = NoResult
    /\ seen = NoResult

\* img = downscale_by_2(&img): the pyramid loops downscale the previous
\* scale's image, at most NUM_SCALES - 1 times.
Downscale ==
    /\ pc = "downscale"
    /\ scale < NUM_SCALES - 1
    /\ LET in_data == IF scale = 0 THEN given[1] ELSE result.value
       IN  /\ given' = <<in_data>>
           /\ result' = [kind |-> "downscale_by_2", value |-> downscale_by_2(in_data)]
    /\ scale' = scale + 1
    /\ UNCHANGED <<pc, self, l, seen>>

NextDown == Downscale

SpecDown == InitDown /\ [][NextDown]_vars

\* The last call of downscale_by_2 has returned.
Downscaled == pc = "downscale" /\ result /= NoResult

\* Every pixel of img is <<v, v, v>>.
IsUniform(img, v) == \A i \in 1..Len(img.data) : img.data[i] = <<v, v, v>>

\* The number of pixels of the 2x2 block of the output pixel (ox, oy) that lie
\* inside an image of the given size.
LivePixels(ox, oy, width, height) ==
    Cardinality({b \in {0, 1} \X {0, 1} : (2 * ox) + b[1] < width /\ (2 * oy) + b[2] < height})

\* C11 (as claimed): downscaling a uniform image of value v gives an image
\* whose every pixel is v, for every width and height.
C11_UniformPreserved ==
    Downscaled =>
        \A v \in {4 * Quantum, 9 * Quantum} :
            IsUniform(given[1], v) => IsUniform(result.value, v)

\* C11 (amended): downscaling a uniform image of value v gives v exactly at
\* every output pixel whose 2x2 block lies inside the input, v / 2 where the
\* block is clipped by the right or the bottom edge, and v / 4 where it is
\* clipped by both.
C11_UniformPreservedInside ==
    Downscaled =>
        \A v \in {4 * Quantum, 9 * Quantum} :
            IsUniform(given[1], v) =>
                \A i \in 1..Len(result.value.data) :
                    LET ox == (i - 1) % result.value.width
                        oy == (i - 1) \div result.value.width
                        live == LivePixels(ox, oy, given[1].width, given[1].height)
                    IN  \A c \in 1..3 : 4 * result.value.data[i][c] = live * v

\* C11 witness: a uniform image of odd width and even height was downscaled;
\* its first output pixel holds v and the last of the first row v / 2.
C11_Witness ==
    /\ Downscaled /\ IsUniform(given[1], 4 * Quantum)
    /\ given[1].width = 5 /\ given[1].height = 4
    /\ result.value.data[1] = <<4 * Quantum, 4 * Quantum, 4 * Quantum>>
    /\ result.value.data[3] = <<2 * Quantum, 2 * Quantum, 2 * Quantum>>

\* The least k with 2 k >= n.
CeilHalf(n) == CHOOSE k \in 0..n : 2 * k >= n /\ (k = 0 \/ 2 * (k - 1) < n)

\* C15: downscale_by_2 of a (w, h) image has size (ceil(w / 2), ceil(h / 2));
\* each output pixel is, per channel, the sum of the pixels of its 2x2 block
\* that lie inside the image, divided by 4.
C15_BlockSumOver4 ==
    Downscaled =>
        LET in == given[1]
            out == result.value
        IN  /\ out.width = CeilHalf(in.width) /\ out.height = CeilHalf(in.height)
            /\ Len(out.data) = out.width * out.height
            /\ \A ox \in 0..(out.width - 1) : \A oy \in 0..(out.height - 1) : \A c \in 1..3 :
                   LET block == {b \in {0, 1} \X {0, 1} :
                                    (2 * ox) + b[1] < in.width /\ (2 * oy) + b[2] < in.height}
                       At(b) == in.data[(((2 * oy) + b[2]) * in.width) + (2 * ox) + b[1] + 1][c]
                       Rest(S) == IF S = {} THEN 0 ELSE LET b == CHOOSE e \in S : TRUE IN At(b)
                       b1 == IF block = {} THEN <<0, 0>> ELSE CHOOSE e \in block : TRUE
                       r1 == block \ {b1}
                       b2 == IF r1 = {} THEN <<0, 0>> ELSE CHOOSE e \in r1 : TRUE
                       r2 == r1 \ {b2}
                       b3 == IF r2 = {} THEN <<0, 0>> ELSE CHOOSE e \in r2 : TRUE
                       r3 == r2 \ {b3}
                       total == Rest(block) + Rest(r1) + Rest(r2) + Rest(r3)
                   IN  4 * out.data[(oy * out.width) + ox + 1][c] = total

\* C15 witness: an image of odd width and odd height with varied pixels was
\* downscaled; its last output pixel is a quarter of the corner pixel.
C15_Witness ==
    /\ Downscaled /\ scale = 1
    /\ given[1] = varied_image(5, 3)
    /\ result.value.width = 3 /\ result.value.height = 2
    /\ \A c \in 1..3 : 4 * result.value.data[6][c] = given[1].data[15][c]
    /\ result.value.data[6][2] > 0

\* ------------------------------------------------------------------------
\* ToLinearRgb::to_linear_rgb on imgref images
\* ------------------------------------------------------------------------

\* The largest width and height of the images converted, and the largest
\* number of padding elements after each row of the buffer.
MaxImgSide == 2
MaxPadding == 1

\* srgb_to_linear(s): s / 12.92 up to 0.04045, ((s + 0.055) / 1.055)^2.4
\* above (x^2.4 computed as x^2 * (x^2)^(1/5)).
srgb_to_linear(s) ==
    IF 2 * s <= 809 THEN Div(s, 129200)
    ELSE LET x == Div(s + 550, 10550)
             sq == Mul(x, x)
         IN  Mul(sq, Root(sq, 5))

\* SRGB_TO_LINEAR_LUT[v]: entry i holds srgb_to_linear(i as f32 / 255.0).
srgb_u8_to_linear(v) == srgb_to_linear(RoundDiv(v * FX, 255))

srgb_u16_to_linear(v) == srgb_to_linear(RoundDiv(v * FX, 65535))

\* ImgRef: a buffer of rows of `stride` elements, of which the first `width`
\* are pixels.
ImgRef(buf, width, height, stride) ==
    [buf |-> buf, width |-> width, height |-> height, stride |-> stride]

\* pixels() reading the buffer from its start, padding included.
pixels_whole_buffer(img) == Vec(img.buf, img.width * img.height)

\* self.pixels(): the pixels row by row, without the padding.
pixels(img) ==
    Vec([i \in 1..(img.width * img.height) |->
            img.buf[(((i - 1) \div img.width) * img.stride) + ((i - 1) % img.width) + 1]],
        img.width * img.height)

\* The pixel formats with a ToLinearRgb implementation for ImgRef.
Formats == {"[u8; 3]", "[u16; 3]", "[f32; 3]", "u8", "f32"}

\* The conversion of one pixel (the closure given to map); a grayscale pixel
\* is a pixel of one component.
convert_pixel(format, v) ==
    CASE format = "[u8; 3]" ->
            <<srgb_u8_to_linear(v[1]), srgb_u8_to_linear(v[2]), srgb_u8_to_linear(v[3])>>
      [] format = "[u16; 3]" ->
            <<srgb_u16_to_linear(v[1]), srgb_u16_to_linear(v[2]), srgb_u16_to_linear(v[3])>>
      [] format = "[f32; 3]" -> v
      [] format = "u8" -> LET lin == srgb_u8_to_linear(v[1]) IN <<lin, lin, lin>>
      [] format = "f32" -> <<v[1], v[1], v[1]>>

\* to_linear_rgb(&self) for an ImgRef of the format.
to_linear_rgb(format, img, debug_assertions) ==
    LET px == pixels(img)
    IN  LinearRgbImage_new(Vec([i \in 1..Len(px) |-> convert_pixel(format, px[i])], Len(px)),
                           img.width, img.height, debug_assertions)

\* Sample values of the component types.
Samples(format) ==
    CASE format \in {"[u8; 3]", "u8"} -> <<0, 10, 128, 255>>
      [] format = "[u16; 3]" -> <<0, 2570, 32896, 65535>>
      [] format \in {"[f32; 3]", "f32"} -> <<0, 1234, FX \div 2, FX>>

\* A buffer of n elements of the format, the samples taken in turn from the
\* p-th on.
Buffer(format, n, p) ==
    LET S(k) == Samples(format)[(k % 4) + 1]
    IN  Vec([i \in 1..n |-> IF format \in {"u8", "f32"} THEN <<S(i + p)>>
                                                          ELSE <<S(i + p), S(i + p + 1), S(i + p + 2)>>],
            n)

ConvInputs ==
    UNION {{[format |-> format,
             img |-> ImgRef(Buffer(format, (width + pad) * height, p), width, height, width + pad)] :
                format \in Formats, p \in 0..2} :
           <<width, height, pad>> \in (1..MaxImgSide) \X (1..MaxImgSide) \X (0..MaxPadding)}

InitConv ==
    /\ pc = "to_linear_rgb"
    /\ self = NoReference
    /\ given \in {<<in>> : in \in ConvInputs}
    /\ l = NoLocals
    /\ scale = 0
    /\ result = NoResult
    /\ seen = NoResult

\* img.to_linear_rgb(), in a debug or in a release build.
ToLinearRgb(debug_assertions) ==
    /\ pc = "to_linear_rgb"
    /\ result = NoResult
    /\ result' = [kind |-> "to_linear_rgb", debug_assertions |-> debug_assertions,
                  value |-> to_linear_rgb(given[1].format, given[1].img, debug_assertions)]
    /\ UNCHANGED <<pc, self, given, l, scale, seen>>

NextConv == \E debug_assertions \in BOOLEAN : ToLinearRgb(debug_assertions)

SpecConv == InitConv /\ [][NextConv]_vars

\* The element of the input buffer that holds the pixel (x, y).
InputAt(img, x, y) == img.buf[(y * img.stride) + x + 1]

\* C13: to_linear_rgb preserves width, height and pixel order; float pixels
\* are passed through unchanged; the pixel of a grayscale input has three
\* equal channels holding the linearized (u8) or unchanged (f32) value.
C13_ToLinearRgbPreserves ==
    (pc = "to_linear_rgb" /\ result /= NoResult) =>
        LET format == given[1].format
            img == given[1].img
        IN  /\ result.value.ok
            /\ result.value.value.width = img.width
            /\ result.value.value.height = img.height
            /\ Len(result.value.value.data) = img.width * img.height
            /\ \A x \in 0..(img.width - 1) : \A y \in 0..(img.height - 1) :
                   LET out == result.value.value.data[(y * img.width) + x + 1]
                       in == InputAt(img, x, y)
                   IN  /\ format = "[f32; 3]" => out = in
                       /\ format = "f32" => out = <<in[1], in[1], in[1]>>
                       /\ format = "u8" =>
                              (out[1] = out[2] /\ out[2] = out[3]
                               /\ out[1] = srgb_to_linear(RoundDiv(in[1] * FX, 255)))
                       /\ format = "[u8; 3]" =>
                              \A c \in 1..3 : out[c] = srgb_to_linear(RoundDiv(in[c] * FX, 255))
                       /\ format = "[u16; 3]" =>
                              \A c \in 1..3 : out[c] = srgb_to_linear(RoundDiv(in[c] * FX, 65535))

\* C13 witness: a 2x2 grayscale u8 image whose rows are padded was converted;
\* the first pixel of its second row is mid-grey, linearized.
C13_Witness ==
    /\ pc = "to_linear_rgb" /\ result /= NoResult
    /\ given[1].format = "u8"
    /\ given[1].img.width = 2 /\ given[1].img.height = 2 /\ given[1].img.stride = 3
    /\ InputAt(given[1].img, 0, 1) = <<128>>
    /\ result.value.value.data[3][1] > 2000 /\ result.value.value.data[3][1] < 2300
    /\ result.value.value.data[3] /= result.value.value.data[2]

\* ------------------------------------------------------------------------
\* The IIR scan of one row, or of one group of columns, step by step
\* ------------------------------------------------------------------------

\* The longest row or column scanned, and the widest plane.
MaxScanDim == 11
MaxScanWidth == 8

\* The scans of one row.
HorizontalKinds ==
    {"SimdGaussian::horizontal_row", "TransposeGaussian::horizontal_row", "horizontal_row_unsafe"}

\* The scans of a group of columns of a plane, and the columns of a group.
VerticalKinds ==
    {"SimdGaussian::vertical_pass_simd", "SimdGaussian::vertical_pass_scalar",
     "UnsafeSimdGaussian::vertical_pass_sse2", "UnsafeSimdGaussian::vertical_pass_scalar"}

Columns(kind) ==
    IF kind \in {"SimdGaussian::vertical_pass_simd", "UnsafeSimdGaussian::vertical_pass_sse2"}
    THEN 4 ELSE 1

\* A scan: the plane (for a row: the row, of height 1), the offset x of the
\* group's first column and the number of its columns.
Scan(kind, input, width, height, x) ==
    [kind |-> kind, input |-> input, width |-> width, height |-> height, x |-> x,
     columns |-> Columns(kind)]

\* The length of the scanned dimension: `width` of a row, `height` of columns.
scan_dim(g) == IF g.kind \in HorizontalKinds THEN g.width ELSE g.height

\* let mut n = (-big_n) + 1, with -big_n instead.
scan_start_at_radius == -RADIUS

\* let mut n = (-big_n) + 1.
scan_start == (-RADIUS) + 1

\* The test of a tap with only its lower bound.
tap_guard_lower_only(g, side, idx, lane) == idx >= 0

\* The test that decides whether the tap at the scan index idx reads the
\* input, as each scan writes it (side is "left" for left/top, "right" for
\* right/bottom).
tap_guard(g, side, idx, lane) ==
    CASE g.kind = "SimdGaussian::horizontal_row" -> idx >= 0 /\ idx < Len(g.input)
      [] g.kind = "TransposeGaussian::horizontal_row" ->
            IF side = "left" THEN idx >= 0 ELSE idx < g.width
      [] g.kind = "horizontal_row_unsafe" -> idx >= 0 /\ idx < g.width
      [] g.kind = "SimdGaussian::vertical_pass_simd" ->
            LET i == 4 * ((lane - 1) \div 4)
            IN  idx >= 0 /\ (idx * g.width) + i + 3 < Len(g.input) - g.x
      [] g.kind = "SimdGaussian::vertical_pass_scalar" ->
            IF side = "left" THEN idx >= 0 ELSE idx < g.height
      [] g.kind \in {"UnsafeSimdGaussian::vertical_pass_sse2",
                     "UnsafeSimdGaussian::vertical_pass_scalar"} ->
            idx >= 0 /\ idx < g.height

\* The element of the plane (0-based) that holds the sample idx of the lane.
sample_offset(g, idx, lane) ==
    IF g.kind \in HorizontalKinds THEN idx ELSE (idx * g.width) + g.x + (lane - 1)

\* A read of the input: outside it, a slice index panics and an unchecked
\* read is undefined; the value NaN stands for both.
Read(input, offset) ==
    IF offset >= 0 /\ offset < Len(input) THEN input[offset + 1] ELSE NaN

tap(g, side, idx, lane) ==
    IF tap_guard(g, side, idx, lane) THEN Read(g.input, sample_offset(g, idx, lane)) ELSE 0

\* The test before the write of output[n].
write_guard(g, n) ==
    IF g.kind = "SimdGaussian::horizontal_row" THEN n >= 0 /\ n < Len(g.input) ELSE n >= 0

\* The locals of a scan before its loop, with accumulators left at 1.0.
scan_locals_stale_state(g) ==
    [n |-> scan_start,
     prev |-> Vec([j \in 1..g.columns |-> <<FX, FX, FX>>], g.columns),
     prev2 |-> Vec([j \in 1..g.columns |-> <<FX, FX, FX>>], g.columns),
     output |-> zeros(Len(g.input)),
     writes |-> zeros(Len(g.input)), visited |-> <<>>, sum |-> <<>>,
     before |-> [prev |-> <<>>, prev2 |-> <<>>]]

\* The locals of a scan before its loop: the accumulators are 0, the output
\* is vec![0.0; width * height].  History: the number of writes of each
\* output sample, the values of n visited, the sums of the taps of the last
\* step and the accumulators before it.
scan_locals(g) ==
    [n |-> scan_start,
     prev |-> Vec([j \in 1..g.columns |-> <<0, 0, 0>>], g.columns),
     prev2 |-> Vec([j \in 1..g.columns |-> <<0, 0, 0>>], g.columns),
     output |-> zeros(Len(g.input)),
     writes |-> zeros(Len(g.input)), visited |-> <<>>, sum |-> <<>>,
     before |-> [prev |-> <<>>, prev2 |-> <<>>]]

\* One iteration of `while n < dim`.
scan_step(g, loc) ==
    LET n == loc.n
        sum == Vec([j \in 1..g.columns |->
                       tap(g, "left", n - RADIUS - 1, j) + tap(g, "right", n + RADIUS - 1, j)],
                   g.columns)
        out == Vec([j \in 1..g.columns |->
                       IF g.kind \in HorizontalKinds
                       THEN horizontal_step(sum[j], loc.prev[j], loc.prev2[j])
                       ELSE vertical_step(sum[j], loc.prev[j], loc.prev2[j])],
                   g.columns)
        Lane(i) == CHOOSE j \in 1..g.columns : sample_offset(g, n, j) = i - 1
        Written(i) == write_guard(g, n) /\ \E j \in 1..g.columns : sample_offset(g, n, j) = i - 1
    IN  [n |-> n + 1, prev |-> out, prev2 |-> loc.prev,
         output |-> Vec([i \in 1..Len(loc.output) |->
                            IF Written(i) THEN out[Lane(i)][1] + out[Lane(i)][2] + out[Lane(i)][3]
                            ELSE loc.output[i]],
                        Len(loc.output)),
         writes |-> Vec([i \in 1..Len(loc.writes) |->
                            IF Written(i) THEN loc.writes[i] + 1 ELSE loc.writes[i]],
                        Len(loc.writes)),
         visited |-> Append(loc.visited, n), sum |-> sum,
         before |-> [prev |-> loc.prev, prev2 |-> loc.prev2]]

\* Rows: all-zero, an impulse, and samples that all differ.
Rows(dim) ==
    {zeros(dim), Vec([i \in 1..dim |-> IF i = 1 THEN FX ELSE 0], dim),
     Vec([i \in 1..dim |-> 100 * (((37 * i) % 101) + 1)], dim)}

\* The offsets of the groups of `columns` columns in a plane of the width:
\* the groups of 4 start at the multiples of 4, the scalar tail follows them.
GroupOffsets(columns, width) ==
    IF columns = 4 THEN {x \in 0..width : x % 4 = 0 /\ x + 4 <= width}
    ELSE {x \in 0..(width - 1) : x >= 4 * (width \div 4)}

ScanInputs ==
    UNION {{Scan(kind, row, dim, 1, 0) : kind \in HorizontalKinds, row \in Rows(dim)} :
           dim \in 1..MaxScanDim}
    \cup
    UNION {{Scan(kind, Vec([i \in 1..(wh[1] * wh[2]) |-> 100 * (((37 * i) % 101) + 1)],
                           wh[1] * wh[2]),
                 wh[1], wh[2], x) :
                x \in GroupOffsets(Columns(kind), wh[1])} :
           <<kind, wh>> \in VerticalKinds \X ((1..MaxScanWidth) \X (1..MaxScanDim))}

InitScan ==
    /\ pc = "scan"
    /\ self = NoReference
    /\ given \in {<<g>> : g \in ScanInputs}
    /\ l = scan_locals(given[1])
    /\ scale = 0
    /\ result = NoResult
    /\ seen = NoResult

ScanStep ==
    /\ pc = "scan"
    /\ l.n < scan_dim(given[1])
    /\ l' = scan_step(given[1], l)
    /\ UNCHANGED <<pc, self, given, scale, result, seen>>

\* The loop is over: the samples of the group are in the output.
ScanDone ==
    /\ pc = "scan"
    /\ ~(l.n < scan_dim(given[1]))
    /\ pc' = "done"
    /\ result' = [kind |-> "scan", value |-> l.output]
    /\ UNCHANGED <<self, given, l, scale, seen>>

NextScan == ScanStep \/ ScanDone

SpecScan == InitScan /\ [][NextScan]_vars

\* A scan is running or is over.
Scanning == pc \in {"scan", "done"}

\* The sample idx of the lane's row or column, zero outside [0, dim).
ZeroExtended(g, idx, lane) ==
    IF idx >= 0 /\ idx < scan_dim(g) THEN g.input[sample_offset(g, idx, lane) + 1] ELSE 0

\* C12: on an all-zero row, the state of every pole (prev_k, prev2_k) is 0 at
\* every step of the horizontal scan and every output sample is 0, in each of
\* the horizontal scans.
C12_ZeroRowStaysZero ==
    (Scanning /\ given[1].kind \in HorizontalKinds /\ given[1].input = zeros(given[1].width))
        => /\ l.prev = <<(<<0, 0, 0>>)>> /\ l.prev2 = <<(<<0, 0, 0>>)>>
           /\ \A i \in 1..Len(l.output) : l.output[i] = 0

\* C12 witness: the transpose backend's scan of a zero row of 11 samples is
\* over; every sample was written, with 0.
C12_Witness ==
    /\ pc = "done" /\ given[1].kind = "TransposeGaussian::horizontal_row"
    /\ given[1].input = zeros(11)
    /\ \A i \in 1..11 : l.writes[i] = 1 /\ result.value[i] = 0

\* C16: the scan visits n = -RADIUS + 1, ..., dim - 1 in increasing order and
\* is over at n = dim; a step with n < 0 writes no output sample; the sample
\* n of each lane, 0 <= n < dim, is written once, at the step n.
C16_ScanOrder ==
    Scanning =>
        LET g == given[1]
            dim == scan_dim(g)
        IN  /\ l.n >= (-RADIUS) + 1 /\ l.n <= dim
            /\ (pc = "done") => (l.n = dim)
            /\ Len(l.visited) = l.n + RADIUS - 1
            /\ \A i \in 1..Len(l.visited) : l.visited[i] = i - RADIUS
            /\ \A j \in 1..g.columns : \A idx \in 0..(dim - 1) :
                   l.writes[sample_offset(g, idx, j) + 1] = IF idx < l.n THEN 1 ELSE 0

\* C16 witness: the RADIUS - 1 priming steps of a group of 4 columns at the
\* offset 4 are done: the state of the poles is not 0 any more, and nothing
\* has been written.
C16_Witness ==
    /\ pc = "scan" /\ given[1].kind = "SimdGaussian::vertical_pass_simd" /\ given[1].x = 4
    /\ l.n = 0 /\ l.visited = <<-4, -3, -2, -1>>
    /\ \A j \in 1..4 : l.prev[j][1] /= 0 /\ l.prev2[j][1] /= 0
    /\ \A i \in 1..Len(l.writes) : l.writes[i] = 0

\* C17: the accumulators start at 0; at every step and for each pole k,
\* out_k = sum MUL_IN_k + prev_k MUL_PREV_k + prev2_k MUL_PREV2_k with the
\* prev_k and prev2_k held before the step (of the same pole and lane); after
\* it prev2_k is the former prev_k and prev_k is out_k; the sample written is
\* the sum of the three out_k.
C17_PoleRecurrence ==
    Scanning =>
        LET g == given[1]
        IN  IF l.visited = <<>>
            THEN \A j \in 1..g.columns : l.prev[j] = <<0, 0, 0>> /\ l.prev2[j] = <<0, 0, 0>>
            ELSE \A j \in 1..g.columns :
                    /\ \A k \in 1..3 :
                           /\ l.prev[j][k] = Mul(l.sum[j], MUL_IN[k])
                                              + Mul(l.before.prev[j][k], MUL_PREV[k])
                                              + Mul(l.before.prev2[j][k], MUL_PREV2[k])
                           /\ l.prev2[j][k] = l.before.prev[j][k]
                    /\ (l.n - 1 >= 0) =>
                           l.output[sample_offset(g, l.n - 1, j) + 1]
                               = l.prev[j][1] + l.prev[j][2] + l.prev[j][3]

\* C17 witness: a step of a row scan with both taps inside the row, whose
\* poles held (and hold) states that differ from pole to pole.
C17_Witness ==
    /\ pc = "scan" /\ given[1].kind = "SimdGaussian::horizontal_row"
    /\ given[1].width = 11 /\ l.n = 7
    /\ l.sum[1] > 0
    /\ l.before.prev[1][1] /= l.before.prev[1][2] /\ l.before.prev2[1][1] /= l.before.prev2[1][2]
    /\ l.prev[1][1] /= 0 /\ l.prev[1][2] /= 0 /\ l.prev[1][3] /= 0
    /\ l.prev2[1] = l.before.prev[1]

\* C18: at the step n the sum of the taps of each lane is the sample
\* n - RADIUS - 1 plus the sample n + RADIUS - 1 of its row or column, a
\* sample outside [0, dim) counting 0; the output has the width * height
\* samples of the input.
C18_ZeroExtendedTaps ==
    Scanning =>
        LET g == given[1]
            n == l.n - 1
        IN  /\ Len(l.output) = g.width * g.height /\ Len(l.output) = Len(g.input)
            /\ (l.visited /= <<>>) =>
                   \A j \in 1..g.columns :
                       l.sum[j] = ZeroExtended(g, n - RADIUS - 1, j)
                                  + ZeroExtended(g, n + RADIUS - 1, j)

\* C18 witness: a step of a group of 4 columns at the offset 4 whose top tap
\* is a row of the plane and whose bottom tap is under its last row.
C18_Witness ==
    /\ pc = "scan" /\ given[1].kind = "SimdGaussian::vertical_pass_simd" /\ given[1].x = 4
    /\ given[1].height = 11 /\ l.n = 9
    /\ \A j \in 1..4 : l.sum[j] = given[1].input[(2 * given[1].width) + 4 + j] /\ l.sum[j] > 0

\* ------------------------------------------------------------------------
\* The vertical pass of SimdGaussian and of TransposeGaussian
\* ------------------------------------------------------------------------

\* TransposeGaussian::transpose: output[x * height + y] = input[y * width + x].
transpose(input, width, height) ==
    Vec([o \in 1..(width * height) |->
            input[(((o - 1) % height) * width) + ((o - 1) \div height) + 1]],
        width * height)

\* TransposeGaussian::vertical_pass: transpose temp, run horizontal_row on
\* each of the `width` chunks of `height` samples, transpose back.
TransposeGaussian_vertical_pass(temp, width, height) ==
    LET transposed_input == transpose(temp, width, height)
        rows == Vec([y \in 1..width |->
                        horizontal_row(SubSeq(transposed_input, ((y - 1) * height) + 1, y * height))],
                    width)
        transposed_output == Vec([i \in 1..(width * height) |->
                                     rows[((i - 1) \div height) + 1][((i - 1) % height) + 1]],
                                 width * height)
    IN  transpose(transposed_output, height, width)

\* The planes given to the vertical passes (the temp of the horizontal pass).
VertPlanes ==
    UNION {{[width |-> wh[1], height |-> wh[2],
             temp |-> Vec([i \in 1..(wh[1] * wh[2]) |-> 100 * (((m * i) % 101) + 1)],
                          wh[1] * wh[2])] : m \in {37, 53}} :
           wh \in (1..MaxScanWidth) \X (1..MaxScanDim)}

InitVert ==
    /\ pc = "vertical"
    /\ self = NoReference
    /\ given \in {<<plane>> : plane \in VertPlanes}
    /\ l = NoLocals
    /\ scale = 0
    /\ result = NoResult
    /\ seen = NoResult

\* The vertical pass of both backends on the same temp plane.
VerticalPasses ==
    /\ pc = "vertical"
    /\ result = NoResult
    /\ result' = [kind |-> "vertical",
                  simd |-> vertical_pass_simd_chunked(given[1].temp, given[1].width,
                                                      given[1].height),
                  transposed |-> TransposeGaussian_vertical_pass(given[1].temp, given[1].width,
                                                                 given[1].height)]
    /\ UNCHANGED <<pc, self, given, l, scale, seen>>

NextVert == VerticalPasses

SpecVert == InitVert /\ [][NextVert]_vars

\* The column x (0-based) of a plane.
Column(plane, width, height, x) == Vec([y \in 1..height |-> plane[((y - 1) * width) + x + 1]], height)

\* C19: the vertical update, out_k = sum VERT_MUL_IN_k - (prev_k VERT_MUL_PREV_k
\* + prev2_k), gives for every column the sequence of the horizontal
\* recurrence applied to that column; the vertical pass of SimdGaussian and
\* that of TransposeGaussian give the same output.
C19_VerticalPassesAgree ==
    (pc = "vertical" /\ result /= NoResult) =>
        /\ result.simd = result.transposed
        /\ \A x \in 0..(given[1].width - 1) :
               Column(result.simd, given[1].width, given[1].height, x)
                   = horizontal_row(Column(given[1].temp, given[1].width, given[1].height, x))

\* C19 witness: both passes have run on a plane 5 wide and 11 high; the two
\* first columns of the output differ and hold no 0.
C19_Witness ==
    /\ pc = "vertical" /\ result /= NoResult
    /\ given[1].width = 5 /\ given[1].height = 11
    /\ Len(result.transposed) = 55
    /\ Column(result.simd, 5, 11, 0) /= Column(result.simd, 5, 11, 1)
    /\ \A y \in 1..11 : result.transposed[((y - 1) * 5) + 1] /= 0

\* ------------------------------------------------------------------------
\* The column groups of the vertical pass
\* ------------------------------------------------------------------------

MaxPlaneWidth == 166
MaxPlaneHeight == 2

\* The condition of the group loops with the bounds of another loop.
group_fits_one_past(x, columns, width) == x + columns <= width + 1

\* The condition of the group loops: while x + COLUMNS <= width.
group_fits(x, columns, width) == x + columns <= width

\* The condition of the scalar loops: while x < width.
tail_remains(x, width) == x < width

\* The offsets of the output plane one kernel call writes: for every n in
\* 0..height-1 (the rows with n >= 0) and every column of the group, the
\* sample n * width + x + i.
kernel_writes(width, height, x, columns) ==
    {(n * width) + x + i : n \in 0..(height - 1), i \in 0..(columns - 1)}

\* The locals of a vertical pass at its entry: let mut x = 0, with the
\* output plane not yet written.
columns_locals(g) ==
    [x |-> 0,
     groups |-> <<>>,
     writes |-> Vec([o \in 1..(g.width * g.height) |-> 0], g.width * g.height),
     outside |-> 0]

\* One kernel call on the group of `columns` columns at x, then x += columns.
group_call(g, loc, columns) ==
    LET offsets == kernel_writes(g.width, g.height, loc.x, columns)
        size == g.width * g.height
    IN  [x |-> loc.x + columns,
         groups |-> Append(loc.groups, [x |-> loc.x, columns |-> columns]),
         writes |-> Vec([o \in 1..size |-> loc.writes[o] + (IF (o - 1) \in offsets THEN 1 ELSE 0)],
                        size),
         outside |-> loc.outside + Cardinality({o \in offsets : o >= size})]

\* The backends and the targets the vertical pass is built for and run on.
ColumnInputs ==
    UNION {{[backend |-> "SimdGaussian", x86_64 |-> TRUE, has_avx512 |-> FALSE,
             has_avx2_fma |-> FALSE, width |-> w, height |-> h]}
           \cup {[backend |-> "UnsafeSimdGaussian", x86_64 |-> TRUE, has_avx512 |-> a,
                  has_avx2_fma |-> b, width |-> w, height |-> h] : a \in BOOLEAN, b \in BOOLEAN}
           \cup {[backend |-> "UnsafeSimdGaussian", x86_64 |-> FALSE, has_avx512 |-> FALSE,
                  has_avx2_fma |-> FALSE, width |-> w, height |-> h]} :
           w \in 1..MaxPlaneWidth, h \in 1..MaxPlaneHeight}

\* The first loop of the vertical pass of a backend.
first_loop(g) ==
    IF g.backend = "SimdGaussian" THEN "simd128"
    ELSE IF g.x86_64 THEN "avx512" ELSE "scalar_fallback"

InitColumns ==
    /\ self = NoReference
    /\ given \in {<<g>> : g \in ColumnInputs}
    /\ pc = first_loop(given[1])
    /\ l = columns_locals(given[1])
    /\ scale = 0
    /\ result = NoResult
    /\ seen = NoResult

\* One turn of a loop: one kernel call while the loop is enabled and its
\* condition holds, otherwise on to the code after it.
loop_turn(enabled, columns, after) ==
    /\ IF enabled /\ (IF columns = 1 THEN tail_remains(l.x, given[1].width)
                                     ELSE group_fits(l.x, columns, given[1].width))
       THEN /\ l' = group_call(given[1], l, columns)
            /\ UNCHANGED <<pc, result>>
       ELSE /\ pc' = after
            /\ result' = IF after = "done" THEN [kind |-> "vertical_pass", value |-> l.writes]
                                           ELSE result
            /\ UNCHANGED l
    /\ UNCHANGED <<self, given, scale, seen>>

\* SimdGaussian::vertical_pass_simd_chunked, its four loops.
Simd128 ==
    /\ pc = "simd128"
    /\ loop_turn(TRUE, 128, "simd32")
Simd32 ==
    /\ pc = "simd32"
    /\ loop_turn(TRUE, 32, "simd4")
Simd4 ==
    /\ pc = "simd4"
    /\ loop_turn(TRUE, 4, "scalar1")
Scalar1 ==
    /\ pc = "scalar1"
    /\ loop_turn(TRUE, 1, "done")

\* UnsafeSimdGaussian::vertical_pass_dispatch, its four loops.
Avx512 ==
    /\ pc = "avx512"
    /\ loop_turn(given[1].has_avx512, 16, "avx2_fma")
Avx2Fma ==
    /\ pc = "avx2_fma"
    /\ loop_turn(given[1].has_avx2_fma, 8, "sse2")
Sse2 ==
    /\ pc = "sse2"
    /\ loop_turn(TRUE, 4, "scalar")
ScalarRemainder ==
    /\ pc = "scalar"
    /\ loop_turn(TRUE, 1, "done")

\* UnsafeSimdGaussian::vertical_pass_simd off x86_64: for x in 0..width.
ScalarFallback ==
    /\ pc = "scalar_fallback"
    /\ loop_turn(TRUE, 1, "done")

NextColumns ==
    \/ Simd128
    \/ Simd32
    \/ Simd4
    \/ Scalar1
    \/ Avx512
    \/ Avx2Fma
    \/ Sse2
    \/ ScalarRemainder
    \/ ScalarFallback

SpecColumns == InitColumns /\ [][NextColumns]_vars

\* The groups holding column x.
GroupsOf(x) == {i \in 1..Len(l.groups) : l.groups[i].x <= x /\ x < l.groups[i].x + l.groups[i].columns}

\* The group sizes of a backend.
GroupSizes(g) == IF g.backend = "SimdGaussian" THEN {128, 32, 4, 1} ELSE {16, 8, 4, 1}

\* C20: in a vertical pass every group has one of the sizes of its backend
\* and ends at or before column width - 1, no sample is written twice and
\* no write falls outside the plane; when the pass is done every column
\* x in [0, width) is in exactly one group and every sample of the plane
\* has been written exactly once.
C20_ColumnsPartitioned ==
    (pc \in {"simd128", "simd32", "simd4", "scalar1", "avx512", "avx2_fma", "sse2", "scalar",
              "scalar_fallback"}
     \/ (pc = "done" /\ result.kind = "vertical_pass")) =>
        /\ \A i \in 1..Len(l.groups) :
               /\ l.groups[i].columns \in GroupSizes(given[1])
               /\ l.groups[i].x + l.groups[i].columns - 1 <= given[1].width - 1
        /\ \A o \in 1..Len(l.writes) : l.writes[o] <= 1
        /\ l.outside = 0
        /\ pc = "done" =>
               /\ \A x \in 0..(given[1].width - 1) : Cardinality(GroupsOf(x)) = 1
               /\ Len(result.value) = given[1].width * given[1].height
               /\ \A o \in 1..Len(result.value) : result.value[o] = 1

\* C20 witness: a pass of SimdGaussian on a plane 165 wide is done with one
\* group of 128, one of 32, one of 4 and a scalar tail of one column.
C20_Witness ==
    /\ pc = "done" /\ result.kind = "vertical_pass"
    /\ given[1].backend = "SimdGaussian" /\ given[1].width = 165 /\ given[1].height = 2
    /\ l.groups = <<[x |-> 0, columns |-> 128], [x |-> 128, columns |-> 32],
                    [x |-> 160, columns |-> 4], [x |-> 164, columns |-> 1]>>

\* C20 witness of the intrinsics backend: a pass with AVX-512 and AVX2+FMA
\* on a plane 29 wide is done with groups of 16, 8, 4 and 1 columns.
C20_WitnessIntrinsics ==
    /\ pc = "done" /\ result.kind = "vertical_pass"
    /\ given[1].backend = "UnsafeSimdGaussian" /\ given[1].width = 29
    /\ l.groups = <<[x |-> 0, columns |-> 16], [x |-> 16, columns |-> 8],
                    [x |-> 24, columns |-> 4], [x |-> 28, columns |-> 1]>>

\* ------------------------------------------------------------------------
\* The buffers of a Blur, by their lengths
\* ------------------------------------------------------------------------

MaxBlurSide == 4

\* UnsafeSimdGaussian::new: const MAX_HEIGHT.
MAX_HEIGHT == 4096

\* SimdGaussian::new and UnsafeSimdGaussian::new: const MAX_COLUMNS.
SIMD_MAX_COLUMNS == 128
UNSAFE_MAX_COLUMNS == 256

\* enum BlurImpl; UnsafeSimd exists with the feature unsafe-simd only.
BlurImpl(unsafe_simd) ==
    {"Scalar", "Simd", "SimdTranspose"} \cup (IF unsafe_simd THEN {"UnsafeSimd"} ELSE {})

\* SimdGaussian::new(_max_width)
SimdGaussian_new(max_width) ==
    [prev_buffer |-> 3 * SIMD_MAX_COLUMNS, prev2_buffer |-> 3 * SIMD_MAX_COLUMNS,
     out_buffer |-> 3 * SIMD_MAX_COLUMNS]

\* TransposeGaussian::new(width, height)
TransposeGaussian_new(width, height) ==
    [temp |-> width * height, transposed_input |-> width * height,
     transposed_output |-> width * height]

\* UnsafeSimdGaussian::new(max_width)
UnsafeSimdGaussian_new(max_width) ==
    [temp |-> max_width * MAX_HEIGHT, prev_buffer |-> 3 * UNSAFE_MAX_COLUMNS,
     prev2_buffer |-> 3 * UNSAFE_MAX_COLUMNS, out_buffer |-> 3 * UNSAFE_MAX_COLUMNS,
     max_width |-> max_width]

\* Blur::with_impl(width, height, impl_type) in a build with or without the
\* feature unsafe-simd: every buffer by its length.
with_impl(width, height, impl_type, unsafe_simd) ==
    [width |-> width, height |-> height, impl_type |-> impl_type,
     scalar_temp |-> width * height,
     simd |-> SimdGaussian_new(width),
     transpose |-> TransposeGaussian_new(width, height),
     feature |-> unsafe_simd,
     unsafe_simd |-> IF unsafe_simd THEN UnsafeSimdGaussian_new(width) ELSE [temp |-> 0]]

\* Vec::truncate leaving the length as it is.
truncate_len_kept(len, n) == len

\* Vec::truncate on a length.
truncate_len(len, n) == IF n < len THEN n ELSE len

\* SimdGaussian::shrink_to and UnsafeSimdGaussian::shrink_to: nothing.
SimdGaussian_shrink_to(g, width, height) == g
UnsafeSimdGaussian_shrink_to(g, width, height) == g

\* TransposeGaussian::shrink_to(width, height)
TransposeGaussian_shrink_to(g, width, height) ==
    [temp |-> truncate_len(g.temp, width * height),
     transposed_input |-> truncate_len(g.transposed_input, width * height),
     transposed_output |-> truncate_len(g.transposed_output, width * height)]

\* Blur::shrink_to(width, height)
Blur_shrink_to(b, width, height) ==
    [b EXCEPT !.scalar_temp = truncate_len(b.scalar_temp, width * height),
              !.simd = SimdGaussian_shrink_to(b.simd, width, height),
              !.transpose = TransposeGaussian_shrink_to(b.transpose, width, height),
              !.unsafe_simd = IF b.feature
                              THEN UnsafeSimdGaussian_shrink_to(b.unsafe_simd, width, height)
                              ELSE b.unsafe_simd,
              !.width = width,
              !.height = height]

\* Blur::set_impl(impl_type)
Blur_set_impl(b, impl_type) == [b EXCEPT !.impl_type = impl_type]

BlurSides == 1..MaxBlurSide

\* A Blur has been constructed, in either build, with any of the backends.
InitShrink ==
    /\ pc = "blur"
    /\ self \in UNION {{with_impl(wh[1], wh[2], i, f) : i \in BlurImpl(f)} :
                        wh \in BlurSides \X BlurSides, f \in BOOLEAN}
    /\ given = <<>>
    /\ l = NoLocals
    /\ scale = 0
    /\ result = NoResult
    /\ seen = NoResult

\* blur.shrink_to(width, height)
ShrinkTo(width, height) ==
    /\ pc = "blur"
    /\ given' = <<"shrink_to", width, height>>
    /\ self' = Blur_shrink_to(self, width, height)
    /\ UNCHANGED <<pc, l, scale, result, seen>>

\* blur.set_impl(impl_type)
SetImpl(impl_type) ==
    /\ pc = "blur"
    /\ given' = <<"set_impl", impl_type>>
    /\ self' = Blur_set_impl(self, impl_type)
    /\ UNCHANGED <<pc, l, scale, result, seen>>

NextShrink ==
    \/ \E width \in BlurSides, height \in BlurSides : ShrinkTo(width, height)
    \/ \E impl_type \in BlurImpl(self.feature) : SetImpl(impl_type)

SpecShrink == InitShrink /\ [][NextShrink]_vars

\* The step is a call shrink_to(width, height) that does not ask for more
\* than the buffers hold.
ShrinkingCall ==
    /\ pc = "blur"
    /\ given' /= given \/ self' /= self
    /\ given'[1] = "shrink_to"
    /\ given'[2] * given'[3] <= self.scalar_temp

\* The lengths of the buffers a Blur allocates once and keeps.
TempBuffers(b) ==
    <<b.scalar_temp, b.transpose.temp, b.transpose.transposed_input,
      b.transpose.transposed_output>>
    \o (IF b.feature THEN <<b.unsafe_simd.temp>> ELSE <<>>)

StateBuffers(b) ==
    <<b.simd.prev_buffer, b.simd.prev2_buffer, b.simd.out_buffer>>
    \o (IF b.feature THEN <<b.unsafe_simd.prev_buffer, b.unsafe_simd.prev2_buffer,
                             b.unsafe_simd.out_buffer>>
        ELSE <<>>)

\* C24: after shrink_to(w, h) with w * h not larger than the current size
\* the width and the height of the Blur are (w, h) and every pre-allocated
\* temp buffer has length exactly w * h; no call makes a buffer longer.
C24_ShrinkToTruncates ==
    [][/\ ShrinkingCall =>
            /\ self'.width = given'[2] /\ self'.height = given'[3]
            /\ \A i \in 1..Len(TempBuffers(self')) :
                   TempBuffers(self')[i] = given'[2] * given'[3]
       /\ pc = "blur" =>
            /\ \A i \in 1..Len(TempBuffers(self)) : TempBuffers(self')[i] <= TempBuffers(self)[i]
            /\ \A i \in 1..Len(StateBuffers(self)) :
                   StateBuffers(self')[i] <= StateBuffers(self)[i]]_vars

\* ------------------------------------------------------------------------
\* The temp buffer of the intrinsics backend
\* ------------------------------------------------------------------------

MaxTempWidth == 3

\* The heights a Blur is constructed with: small ones, and those around
\* MAX_HEIGHT.
TempHeights == (1..MaxTempWidth) \cup {MAX_HEIGHT - 1, MAX_HEIGHT, MAX_HEIGHT + 1}

\* The range of temp indices horizontal_row_unsafe writes for the row y:
\* output = temp_ptr.add(y * width), *output.offset(n) for 0 <= n < width.
row_writes(width, y) == [first |-> y * width, last |-> (y * width) + width - 1]

\* Blur::with_impl(width, height, UnsafeSimd) has been called in a debug
\* or a release build, and a plane of its size is to be blurred.
InitTemp ==
    /\ pc = "blur_single_plane_into"
    /\ \E width \in 1..MaxTempWidth, height \in TempHeights, debug_assertions \in BOOLEAN :
          /\ self = with_impl(width, height, "UnsafeSimd", TRUE)
          /\ given = <<width, height, debug_assertions>>
    /\ l = [y |-> 0, max_index |-> -1]
    /\ scale = 0
    /\ result = NoResult
    /\ seen = NoResult

\* UnsafeSimdGaussian::blur_single_plane_into, up to the horizontal pass:
\* debug_assert!(width * height <= self.temp.data.len()).
BlurSinglePlaneInto ==
    /\ pc = "blur_single_plane_into"
    /\ IF given[3] /\ ~(self.width * self.height <= self.unsafe_simd.temp)
       THEN /\ pc' = "panicked"
            /\ result' = Panic("assertion failed: width * height <= self.temp.data.len()")
       ELSE /\ pc' = "horizontal_pass"
            /\ UNCHANGED result
    /\ UNCHANGED <<self, given, l, scale, seen>>

\* UnsafeSimdGaussian::horizontal_pass, one turn of `for y in 0..height`.
HorizontalRowUnsafe ==
    /\ pc = "horizontal_pass"
    /\ l.y < self.height
    /\ l' = [y |-> l.y + 1, max_index |-> Max(l.max_index, row_writes(self.width, l.y).last)]
    /\ UNCHANGED <<pc, self, given, scale, result, seen>>

\* The horizontal pass is over.
HorizontalPassDone ==
    /\ pc = "horizontal_pass"
    /\ ~(l.y < self.height)
    /\ pc' = "vertical_pass_simd"
    /\ UNCHANGED <<self, given, l, scale, result, seen>>

NextTemp ==
    \/ BlurSinglePlaneInto
    \/ HorizontalRowUnsafe
    \/ HorizontalPassDone

SpecTemp == InitTemp /\ [][NextTemp]_vars

\* C28: every temp index written by the horizontal pass of the intrinsics
\* backend is below the length of its pre-allocated temp buffer.
C28_TempWritesInBounds ==
    pc \in {"horizontal_pass", "vertical_pass_simd"} => l.max_index < self.unsafe_simd.temp

\* ------------------------------------------------------------------------
\* SRGB_TO_LINEAR_LUT: a LazyLock read by several threads
\* ------------------------------------------------------------------------

MaxThreads == 2
MaxCalls == 2

\* The size of the table: [f32; 256].
LUT_SIZE == 256

Threads == 1..MaxThreads

\* The bytes the threads convert.
Bytes == {0, 10, LUT_SIZE - 1}

\* The static before its first use.
LazyLock_new == [state |-> "uninit", value |-> <<>>, builds |-> 0]

\* LazyLock::force may hand out the value while the initializer runs.
lazy_ready_while_running(lock) == lock.state /= "uninit"

\* LazyLock::force hands out the value once the initializer has returned.
lazy_ready(lock) == lock.state = "complete"

\* The value a deref reads: the stored table, or (before it is stored) the
\* array the initializer is filling.
lazy_value(lock, lut) == IF lock.state = "complete" THEN lock.value ELSE lut

\* let mut lut = [0.0f32; 256]
lut_new == Vec([i \in 1..LUT_SIZE |-> 0], LUT_SIZE)

\* *entry = srgb_to_linear(i as f32 / 255.0)
lut_entry(i) == srgb_to_linear(RoundDiv(i * FX, LUT_SIZE - 1))

InitLut ==
    /\ pc = [t \in Threads |-> "idle"]
    /\ self = LazyLock_new
    /\ given = [t \in Threads |-> 0]
    /\ l = [lut |-> lut_new, i |-> 0, v |-> [t \in Threads |-> 0],
            returned |-> [t \in Threads |-> NaN]]
    /\ scale = 0
    /\ result = NoResult
    /\ seen = NoResult

\* A thread calls srgb_u8_to_linear(v).
CallSrgbU8(t, v) ==
    /\ pc[t] = "idle"
    /\ given[t] < MaxCalls
    /\ given' = [given EXCEPT ![t] = @ + 1]
    /\ pc' = [pc EXCEPT ![t] = "deref"]
    /\ l' = [l EXCEPT !.v[t] = v, !.returned[t] = NaN]
    /\ UNCHANGED <<self, scale, result, seen>>

\* The deref of the static finds it unused: this thread runs the initializer.
StartInit(t) ==
    /\ pc[t] = "deref"
    /\ self.state = "uninit"
    /\ self' = [self EXCEPT !.state = "running"]
    /\ pc' = [pc EXCEPT ![t] = "init"]
    /\ l' = [l EXCEPT !.lut = lut_new, !.i = 0]
    /\ UNCHANGED <<given, scale, result, seen>>

\* One turn of `for (i, entry) in lut.iter_mut().enumerate()`.
FillEntry(t) ==
    /\ pc[t] = "init"
    /\ l.i < LUT_SIZE
    /\ l' = [l EXCEPT !.lut[l.i + 1] = lut_entry(l.i), !.i = l.i + 1]
    /\ UNCHANGED <<pc, self, given, scale, result, seen>>

\* The initializer returns lut: the table is stored.
EndInit(t) ==
    /\ pc[t] = "init"
    /\ ~(l.i < LUT_SIZE)
    /\ self' = [state |-> "complete", value |-> l.lut, builds |-> self.builds + 1]
    /\ pc' = [pc EXCEPT ![t] = "deref"]
    /\ UNCHANGED <<given, l, scale, result, seen>>

\* SRGB_TO_LINEAR_LUT[v as usize]: the deref waits until the table is ready.
ReadEntry(t) ==
    /\ pc[t] = "deref"
    /\ lazy_ready(self)
    /\ l' = [l EXCEPT !.returned[t] = lazy_value(self, l.lut)[l.v[t] + 1]]
    /\ pc' = [pc EXCEPT ![t] = "idle"]
    /\ UNCHANGED <<self, given, scale, result, seen>>

NextLut ==
    \/ \E t \in Threads, v \in Bytes : CallSrgbU8(t, v)
    \/ \E t \in Threads : StartInit(t)
    \/ \E t \in Threads : FillEntry(t)
    \/ \E t \in Threads : EndInit(t)
    \/ \E t \in Threads : ReadEntry(t)

SpecLut == InitLut /\ [][NextLut]_vars

\* C26: the table is built at most once and never before its first use;
\* every value srgb_u8_to_linear(v) has returned is the entry v of the
\* fully built table, srgb_to_linear(v / 255).
C26_LutBuiltOnce ==
    /\ self.builds <= 1
    /\ self.builds = 1 <=> self.state = "complete"
    /\ (\A t \in Threads : given[t] = 0) => self.state = "uninit"
    /\ self.state = "complete" =>
           /\ Len(self.value) = LUT_SIZE
           /\ \A v \in Bytes : self.value[v + 1] = lut_entry(v)
    /\ \A t \in Threads :
           l.returned[t] /= NaN =>
               /\ self.state = "complete"
               /\ l.returned[t] = srgb_to_linear(RoundDiv(l.v[t] * FX, 255))

\* C26 witness: both threads made their first call before the table was
\* built and both have returned the entry of the byte 255, which is 1.0.
C26_Witness ==
    /\ self.state = "complete" /\ self.builds = 1
    /\ \A t \in Threads : given[t] = 1 /\ l.v[t] = LUT_SIZE - 1 /\ l.returned[t] = FX

\* ------------------------------------------------------------------------
\* One blur of a plane with the rows and the columns on parallel workers
\* ------------------------------------------------------------------------

MaxPassSide == 3

\* chunks_exact(size) with the chunks one sample short of their stride.
chunk_start_overlapping(index, size) == index * (size - 1)

\* chunks_exact(size): the offset of the chunk `index`.
chunk_start(index, size) == index * size

\* The chunk `index` of a buffer.
chunk(buffer, index, size) ==
    Vec([n \in 1..size |-> IF chunk_start(index, size) + n <= Len(buffer)
                            THEN buffer[chunk_start(index, size) + n] ELSE 0],
        size)

\* for_each returns as soon as one worker has finished its chunk.
pass_joined_by_one(progress, size) == \E i \in 1..Len(progress) : progress[i] = size

\* for_each returns when every worker has finished its chunk.
pass_joined(progress, size) == \A i \in 1..Len(progress) : progress[i] = size

\* A buffer and who wrote its samples (0: no worker yet, else 1 + the
\* index of the chunk of the worker).
Tracked(data) == [data |-> data, writer |-> Vec([i \in 1..Len(data) |-> 0], Len(data)),
                  twice |-> {}]

\* horizontal_row(input_chunk, output_chunk, size) on the chunk `index`, at
\* the turn that writes output_chunk[n].
worker_write(input, output, index, size, n) ==
    LET at == chunk_start(index, size) + n + 1
    IN  [data |-> [output.data EXCEPT ![at] = horizontal_row(chunk(input, index, size))[n + 1]],
         writer |-> [output.writer EXCEPT ![at] = index + 1],
         twice |-> IF output.writer[at] /= 0 THEN output.twice \cup {at} ELSE output.twice]

\* The samples of a buffer a pass reads before a worker wrote them.
unwritten(buffer) == {i \in 1..Len(buffer.data) : buffer.writer[i] = 0}

PassBackends == {"SimdGaussian", "TransposeGaussian"}

PassInputs ==
    UNION {{[backend |-> b, width |-> wh[1], height |-> wh[2],
             plane |-> Vec([i \in 1..(wh[1] * wh[2]) |-> 100 * (((37 * i) % 101) + 1)],
                           wh[1] * wh[2])] : b \in PassBackends} :
           wh \in (1..MaxPassSide) \X (1..MaxPassSide)}

\* The locals of blur_single_plane at the start of the horizontal pass.
pass_locals(g) ==
    [temp |-> Tracked(zeros(g.width * g.height)),
     progress |-> Vec([y \in 1..g.height |-> 0], g.height),
     transposed_input |-> <<>>,
     transposed_output |-> Tracked(zeros(g.width * g.height)),
     early_reads |-> {}]

InitPass ==
    /\ pc = "horizontal_pass"
    /\ self = NoReference
    /\ given \in {<<g>> : g \in PassInputs}
    /\ l = pass_locals(given[1])
    /\ scale = 0
    /\ result = NoResult
    /\ seen = NoResult

\* The worker of the row y writes its next sample of temp.
HorizontalWorker(y) ==
    /\ pc = "horizontal_pass"
    /\ l.progress[y + 1] < given[1].width
    /\ l' = [l EXCEPT !.temp = worker_write(given[1].plane, l.temp, y, given[1].width,
                                            l.progress[y + 1]),
                      !.progress[y + 1] = @ + 1]
    /\ UNCHANGED <<pc, self, given, scale, result, seen>>

\* The horizontal pass returns; SimdGaussian goes on with its vertical
\* pass, TransposeGaussian with the transposition of temp.
HorizontalJoin ==
    /\ pc = "horizontal_pass"
    /\ pass_joined(l.progress, given[1].width)
    /\ pc' = IF given[1].backend = "SimdGaussian" THEN "vertical_pass_simd_chunked"
                                                  ELSE "vertical_pass"
    /\ l' = [l EXCEPT !.progress = Vec([x \in 1..given[1].width |-> 0], given[1].width)]
    /\ UNCHANGED <<self, given, scale, result, seen>>

\* SimdGaussian::vertical_pass_simd_chunked(&temp, &mut out, width, height)
VerticalPassSimd ==
    /\ pc = "vertical_pass_simd_chunked"
    /\ l' = [l EXCEPT !.early_reads = l.early_reads \cup unwritten(l.temp)]
    /\ result' = [kind |-> "blur_single_plane",
                  value |-> vertical_pass_simd_chunked(l.temp.data, given[1].width,
                                                       given[1].height)]
    /\ pc' = "done"
    /\ UNCHANGED <<self, given, scale, seen>>

\* TransposeGaussian::vertical_pass: the transposition of temp.
TransposeTemp ==
    /\ pc = "vertical_pass"
    /\ l' = [l EXCEPT !.early_reads = l.early_reads \cup unwritten(l.temp),
                      !.transposed_input = transpose(l.temp.data, given[1].width,
                                                     given[1].height)]
    /\ pc' = "columns"
    /\ UNCHANGED <<self, given, scale, result, seen>>

\* The worker of the column x writes its next sample of transposed_output.
ColumnWorker(x) ==
    /\ pc = "columns"
    /\ l.progress[x + 1] < given[1].height
    /\ l' = [l EXCEPT !.transposed_output =
                          worker_write(l.transposed_input, l.transposed_output, x,
                                       given[1].height, l.progress[x + 1]),
                      !.progress[x + 1] = @ + 1]
    /\ UNCHANGED <<pc, self, given, scale, result, seen>>

\* The columns are done: the transposition back into the output.
TransposeBack ==
    /\ pc = "columns"
    /\ pass_joined(l.progress, given[1].height)
    /\ l' = [l EXCEPT !.early_reads = l.early_reads \cup unwritten(l.transposed_output)]
    /\ result' = [kind |-> "blur_single_plane",
                  value |-> transpose(l.transposed_output.data, given[1].height,
                                      given[1].width)]
    /\ pc' = "done"
    /\ UNCHANGED <<self, given, scale, seen>>

NextPass ==
    \/ \E y \in 0..(given[1].height - 1) : HorizontalWorker(y)
    \/ HorizontalJoin
    \/ VerticalPassSimd
    \/ TransposeTemp
    \/ \E x \in 0..(given[1].width - 1) : ColumnWorker(x)
    \/ TransposeBack

SpecPass == InitPass /\ [][NextPass]_vars

\* C21: the vertical pass starts only when every sample of temp has been
\* written by the horizontal pass of the same call; it reads no sample
\* before a worker wrote it.
C21_VerticalAfterHorizontal ==
    /\ pc /= "horizontal_pass" => unwritten(l.temp) = {}
    /\ l.early_reads = {}

\* C21 witness: the three row workers of a plane 2 wide and 3 high have
\* written all of temp and the vertical pass of SimdGaussian has run.
C21_Witness ==
    /\ pc = "done"
    /\ given[1].backend = "SimdGaussian" /\ given[1].height = 3 /\ given[1].width = 2
    /\ unwritten(l.temp) = {}
    /\ Len(result.value) = 6

\* The rows finished so far, for the witness of interleaved workers.
Finished(progress, size) == {i \in 1..Len(progress) : progress[i] = size}

\* C22: a worker writes only the samples of its own chunk, no sample is
\* written twice, and what it writes is the sample of the sequential pass:
\* temp is filled with horizontal_pass(plane) and the finished blur is
\* that of the sequential code, whatever the order of the workers.
C22_WorkersIndependent ==
    /\ \A i \in 1..Len(l.temp.data) :
           l.temp.writer[i] /= 0 =>
               /\ l.temp.writer[i] = ((i - 1) \div given[1].width) + 1
               /\ l.temp.data[i] = horizontal_pass(given[1].plane, given[1].width)[i]
    /\ \A i \in 1..Len(l.transposed_output.data) :
           l.transposed_output.writer[i] /= 0 =>
               l.transposed_output.writer[i] = ((i - 1) \div given[1].height) + 1
    /\ l.temp.twice = {} /\ l.transposed_output.twice = {}
    /\ pc = "done" =>
           result.value = blur_single_plane(given[1].plane, given[1].width, given[1].height)

\* C22 witness: in a horizontal pass over 3 rows of 3 samples the last row
\* is finished, the first is half written and the second not begun.
C22_Witness ==
    /\ pc = "horizontal_pass"
    /\ given[1].width = 3 /\ given[1].height = 3
    /\ l.progress = <<1, 0, 3>>
    /\ Finished(l.progress, 3) = {3}
    /\ l.temp.data[7] /= 0 /\ l.temp.data[4] = 0

\* ------------------------------------------------------------------------
\* A Blur with the contents of its buffers, used for several blurs
\* ------------------------------------------------------------------------

MaxOwnWidth == 5
MaxOwnHeight == 2
MaxOps == 4

\* The scan of one column from step n on with the poles prev and prev2:
\* the samples written and the poles the scan ends with.
RECURSIVE column_scan(_, _, _, _, _)
column_scan(column, n, prev, prev2, out) ==
    IF n >= Len(column) THEN [out |-> out, prev |-> prev, prev2 |-> prev2]
    ELSE LET o == vertical_step(Tap(column, n - RADIUS - 1) + Tap(column, n + RADIUS - 1),
                                prev, prev2)
         IN  column_scan(column, n + 1, o, prev,
                         IF n >= 0 THEN Append(out, o[1] + o[2] + o[3]) ELSE out)

\* vertical_pass_simd without prev.fill(0.0): the buffer as the last call
\* left it.
buffer_fill_skipped(buffer, columns) == buffer

\* prev.fill(0.0) on the slice [..3 * COLUMNS] of a buffer.
buffer_fill(buffer, columns) ==
    Vec([i \in 1..Len(buffer) |-> IF i <= 3 * columns THEN 0 ELSE buffer[i]], Len(buffer))

\* The poles of the lane i of a buffer of a group of `columns` columns:
\* the entries i, i + COLUMNS and i + 2 COLUMNS.
lane_poles(buffer, columns, i) ==
    <<buffer[i + 1], buffer[i + columns + 1], buffer[i + (2 * columns) + 1]>>

\* The buffer with the poles of the lanes of a group stored.
store_poles(buffer, columns, poles) ==
    Vec([i \in 1..Len(buffer) |->
            IF i <= 3 * columns THEN poles[((i - 1) % columns) + 1][((i - 1) \div columns) + 1]
            ELSE buffer[i]],
        Len(buffer))

\* SimdGaussian::vertical_pass_simd::<COLUMNS> on the group at x: the
\* scans of its columns and the buffers it leaves.
vertical_pass_simd(g, input, width, height, x, columns) ==
    LET prev == buffer_fill(g.prev_buffer, columns)
        prev2 == buffer_fill(g.prev2_buffer, columns)
        scans == Vec([i \in 1..columns |->
                         column_scan(Column(input, width, height, x + i - 1), (-RADIUS) + 1,
                                     lane_poles(prev, columns, i - 1),
                                     lane_poles(prev2, columns, i - 1), <<>>)],
                     columns)
    IN  [scans |-> scans,
         g |-> [prev_buffer |-> store_poles(prev, columns, Vec([i \in 1..columns |-> scans[i].prev], columns)),
                prev2_buffer |-> store_poles(prev2, columns, Vec([i \in 1..columns |-> scans[i].prev2], columns)),
                out_buffer |-> store_poles(g.out_buffer, columns, Vec([i \in 1..columns |-> scans[i].prev], columns))]]

\* SimdGaussian::vertical_pass_simd_chunked from the group at x on (the
\* groups of 4 columns, then the scalar tail on locals of its own): the
\* columns scanned so far and the buffers.
RECURSIVE vertical_groups(_, _, _, _, _, _)
vertical_groups(g, input, width, height, x, cols) ==
    IF group_fits(x, 4, width)
    THEN LET r == vertical_pass_simd(g, input, width, height, x, 4)
         IN  vertical_groups(r.g, input, width, height, x + 4,
                             cols \o Vec([i \in 1..4 |-> r.scans[i].out], 4))
    ELSE IF tail_remains(x, width)
    THEN vertical_groups(g, input, width, height, x + 1,
                         Append(cols, column_scan(Column(input, width, height, x), (-RADIUS) + 1,
                                                  <<0, 0, 0>>, <<0, 0, 0>>, <<>>).out))
    ELSE [cols |-> cols, g |-> g]

\* The plane of the columns scanned.
plane_of_columns(cols, width, height) ==
    Vec([i \in 1..(width * height) |-> cols[((i - 1) % width) + 1][((i - 1) \div width) + 1]],
        width * height)

\* SimdGaussian::blur_single_plane: the output and the SimdGaussian after it.
SimdGaussian_blur_single_plane(g, plane, width, height) ==
    LET temp == horizontal_pass(plane, width)
        r == vertical_groups(g, temp, width, height, 0, <<>>)
    IN  [out |-> plane_of_columns(r.cols, width, height), g |-> r.g]

\* horizontal_pass(input, output, width): the rows of input, each written
\* to the chunk of output zipped with it; what is beyond stays.
horizontal_pass_into(input, output, width) ==
    LET rows == horizontal_pass(input, width)
    IN  Vec([i \in 1..Len(output) |-> IF i <= Len(rows) THEN rows[i] ELSE output[i]], Len(output))

\* TransposeGaussian::blur_single_plane: the output (or the panic of an
\* assert_eq!) and the TransposeGaussian after it.
TransposeGaussian_blur_single_plane(g, plane, width, height) ==
    IF Len(plane) /= Len(g.temp) \/ Len(g.temp) /= width * height
       \/ Len(g.transposed_input) /= width * height
       \/ Len(g.transposed_output) /= width * height
    THEN [out |-> Panic("assertion left == right failed"), g |-> g]
    ELSE LET temp == horizontal_pass_into(plane, g.temp, width)
             transposed_input == transpose(temp, width, height)
             rows == Vec([y \in 1..width |->
                             horizontal_row(SubSeq(transposed_input, ((y - 1) * height) + 1,
                                                   y * height))],
                         width)
             transposed_output == Vec([i \in 1..(width * height) |->
                                          rows[((i - 1) \div height) + 1][((i - 1) % height) + 1]],
                                      width * height)
         IN  [out |-> transpose(transposed_output, height, width),
              g |-> [temp |-> temp, transposed_input |-> transposed_input,
                     transposed_output |-> transposed_output]]

\* RecursiveGaussian::horizontal_pass and vertical_pass_chunked::<128, 32>:
\* the recurrences of the scalar backend.
RecursiveGaussian_horizontal_pass(input, output, width) == horizontal_pass_into(input, output, width)
RecursiveGaussian_vertical_pass_chunked(input, width, height) ==
    plane_of_columns(Vec([x \in 1..width |->
                             column_scan(Column(input, width, height, x - 1), (-RADIUS) + 1,
                                         <<0, 0, 0>>, <<0, 0, 0>>, <<>>).out],
                         width),
                     width, height)

\* Blur::with_impl(width, height, impl_type) with the contents of its
\* buffers, in a build without the feature unsafe-simd.
Blur_with_impl(width, height, impl_type) ==
    [width |-> width, height |-> height, impl_type |-> impl_type,
     scalar_temp |-> zeros(width * height),
     simd |-> [prev_buffer |-> zeros(3 * SIMD_MAX_COLUMNS),
               prev2_buffer |-> zeros(3 * SIMD_MAX_COLUMNS),
               out_buffer |-> zeros(3 * SIMD_MAX_COLUMNS)],
     transpose |-> [temp |-> zeros(width * height), transposed_input |-> zeros(width * height),
                    transposed_output |-> zeros(width * height)]]

\* Blur::shrink_to(width, height) on the contents.
Blur_shrink_to_contents(b, width, height) ==
    [b EXCEPT !.scalar_temp = truncate(b.scalar_temp, width * height),
              !.transpose = [temp |-> truncate(b.transpose.temp, width * height),
                             transposed_input |-> truncate(b.transpose.transposed_input,
                                                           width * height),
                             transposed_output |-> truncate(b.transpose.transposed_output,
                                                            width * height)],
              !.width = width,
              !.height = height]

\* Blur::blur_plane(plane): the output and the Blur after it.
Blur_blur_plane(b, plane) ==
    IF b.impl_type = "Scalar"
    THEN LET scalar_temp == RecursiveGaussian_horizontal_pass(plane, b.scalar_temp, b.width)
         IN  [out |-> RecursiveGaussian_vertical_pass_chunked(scalar_temp, b.width, b.height),
              b |-> [b EXCEPT !.scalar_temp = scalar_temp]]
    ELSE IF b.impl_type = "Simd"
    THEN LET r == SimdGaussian_blur_single_plane(b.simd, plane, b.width, b.height)
         IN  [out |-> r.out, b |-> [b EXCEPT !.simd = r.g]]
    ELSE LET r == TransposeGaussian_blur_single_plane(b.transpose, plane, b.width, b.height)
         IN  [out |-> r.out, b |-> [b EXCEPT !.transpose = r.g]]

\* The planes blurred: two of every size.
OwnPlanes(width, height) ==
    {Vec([i \in 1..(width * height) |-> 100 * (((m * i) % 101) + 1)], width * height) :
        m \in {37, 53}}

InitOwn ==
    /\ pc = "blur"
    /\ self \in {Blur_with_impl(MaxOwnWidth, MaxOwnHeight, i) : i \in BlurImpl(FALSE)}
    /\ given = <<>>
    /\ l = NoLocals
    /\ scale = 0
    /\ result = NoResult
    /\ seen = NoResult

\* blur.blur_plane(plane) with a plane of the Blur's size.
BlurPlane(plane) ==
    /\ pc = "blur"
    /\ scale < MaxOps
    /\ scale' = scale + 1
    /\ given' = <<"blur_plane", plane>>
    /\ LET r == Blur_blur_plane(self, plane)
       IN  /\ self' = r.b
           /\ result' = [kind |-> "blur_plane", out |-> r.out]
    /\ l' = [before |-> self]
    /\ UNCHANGED <<pc, seen>>

\* blur.set_impl(impl_type)
SetImplOwn(impl_type) ==
    /\ pc = "blur"
    /\ scale < MaxOps
    /\ scale' = scale + 1
    /\ impl_type /= self.impl_type
    /\ given' = <<"set_impl", impl_type>>
    /\ self' = [self EXCEPT !.impl_type = impl_type]
    /\ result' = NoResult
    /\ UNCHANGED <<pc, l, seen>>

\* blur.shrink_to(width, height) to a size that is not larger.
ShrinkToOwn(width, height) ==
    /\ pc = "blur"
    /\ scale < MaxOps
    /\ scale' = scale + 1
    /\ width * height <= self.width * self.height
    /\ given' = <<"shrink_to", width, height>>
    /\ self' = Blur_shrink_to_contents(self, width, height)
    /\ result' = NoResult
    /\ UNCHANGED <<pc, l, seen>>

NextOwn ==
    \/ \E plane \in OwnPlanes(self.width, self.height) : BlurPlane(plane)
    \/ \E impl_type \in BlurImpl(FALSE) : SetImplOwn(impl_type)
    \/ \E width \in 1..MaxOwnWidth, height \in 1..MaxOwnHeight : ShrinkToOwn(width, height)

SpecOwn == InitOwn /\ [][NextOwn]_vars

LoopRecords(loc) == IF pc = "new" THEN loc.scales ELSE loc.msssim
LoopImages(loc) == IF pc = "oneshot" THEN <<loc.img1, loc.img2>> ELSE <<loc.img>>

\* The step is one iteration of the loop of the running call.
ScaleStep == pc \in {"new", "compare", "oneshot"} /\ pc' = pc /\ l' /= l

\* C23: an iteration goes from the scale s to s + 1 with the records of
\* the scales 0..s-1 complete, appends the record of the scale s to them,
\* and works (for s > 0) on the 2x downscale of the image of the scale
\* before.
C23_ScalesSequential ==
    [][ScaleStep =>
          /\ scale' = scale + 1
          /\ Len(LoopRecords(l)) = scale
          /\ Len(LoopRecords(l')) = scale + 1
          /\ SubSeq(LoopRecords(l'), 1, scale) = LoopRecords(l)
          /\ \A i \in 1..Len(LoopImages(l)) :
                 LoopImages(l')[i] = IF scale > 0 THEN downscale_by_2(LoopImages(l)[i])
                                                 ELSE LoopImages(l)[i]]_vars

\* C23 witness: new has finished the scales 0 and 1 of an 8x8 image; its
\* image is the 4x4 downscale and two records are stored.
C23_Witness ==
    /\ pc = "new" /\ scale = 2
    /\ Len(l.scales) = 2
    /\ l.img = downscale_by_2(given[1].linear)
    /\ l.img.width = 4 /\ Len(l.scales[2].mu1[1]) = 16

\* The planes of the image of the running call and a mul buffer newly
\* allocated for them.
Planar(img) == xyb_to_planar(PositiveXyb(img))
FreshMul(n) == <<zeros(n), zeros(n), zeros(n)>>

\* The blur of the product of two planar images written to a new buffer.
BlurOfProduct(p1, p2, width, height) ==
    blur(image_multiply(p1, p2, FreshMul(width * height)), width, height)

\* C30: at every scale the sigma planes are the blurs of the products
\* written just before them: in new, sigma1_sq that of p1 p1; in compare,
\* the record of the scale is computed from sigma2_sq, that of p2 p2, and
\* sigma12, that of p1 p2; the shared mul buffer holds the last product
\* and nothing of an earlier step or scale.
C30_BlurReadsLastProduct ==
    /\ (pc = "new" /\ scale > 0) =>
           LET p1 == l.scales[scale].img1_planar
           IN  /\ p1 = Planar(l.img)
               /\ l.scales[scale].sigma1_sq = BlurOfProduct(p1, p1, l.width, l.height)
               /\ l.mul = image_multiply(p1, p1, FreshMul(l.width * l.height))
    /\ (pc = "compare" /\ scale > 0) =>
           LET scale_data == self.scales[scale]
               p1 == scale_data.img1_planar
               p2 == Planar(l.img)
               mu2 == blur(p2, l.width, l.height)
           IN  /\ l.msssim[scale].avg_ssim
                      = ssim_map(l.width, l.height, scale_data.mu1, mu2, scale_data.sigma1_sq,
                                 BlurOfProduct(p2, p2, l.width, l.height),
                                 BlurOfProduct(p1, p2, l.width, l.height))
               /\ l.mul = image_multiply(p1, p2, FreshMul(l.width * l.height))

\* C30 witness: compare has finished the scale 1 (4x4) of the checkerboard
\* against the gradient: the mul buffer, 64 long at the scale 0, holds the
\* 16 products p1 p2 of this scale, which differ from p2 p2.
C30_Witness ==
    /\ pc = "compare" /\ scale = 2
    /\ given[1] /= given[2]
    /\ Len(l.mul[1]) = 16
    /\ l.mul /= image_multiply(Planar(l.img), Planar(l.img), FreshMul(16))
    /\ \A c \in 1..3 : l.msssim[2].avg_ssim[2 * c] > 0

\* ------------------------------------------------------------------------
\* Ssim2Reference::new followed by compare, by the sizes of the images and
\* the lengths of the buffers
\* ------------------------------------------------------------------------

MaxPairDim == 20

\* The widths and heights: the small ones, and those at most one from a
\* size that reaches a further scale.
PairDims ==
    (1..MaxPairDim) \cup {(MIN_SIZE * (2 ^ k)) + d : k \in 0..(NUM_SCALES - 1), d \in {-1, 0, 1}}

\* The locals of Ssim2Reference::compare after its checks; Blur::new is
\* Blur::with_impl with the default BlurImpl::Simd.
compare_locals_size(img2, unsafe_simd) ==
    [img |-> img2, width |-> img2.width, height |-> img2.height,
     mul |-> img2.width * img2.height,
     blur |-> with_impl(img2.width, img2.height, "Simd", unsafe_simd), msssim |-> <<>>]

\* The entry of Ssim2Reference::compare on the reference ref.
compare_entry_size(ref, distorted, unsafe_simd) ==
    IF ~distorted.convertible THEN Err("LinearRgbConversionFailed")
    ELSE IF distorted.linear.width /= ref.original_width
            \/ distorted.linear.height /= ref.original_height
         THEN Err("NonMatchingImageDimensions")
    ELSE Ok(compare_locals_size(distorted.linear, unsafe_simd))

\* compare_continues with `<=` for `<` in the test of the size.
compare_continues_at_most_8(ref, s, width, height) ==
    s < Len(ref.scales) /\ ~(width <= MIN_SIZE \/ height <= MIN_SIZE)

\* The loop of compare goes on: self.scales has not run out and the size
\* has not fallen under 8.
compare_continues(ref, s, width, height) == s < Len(ref.scales) /\ ~TooSmall(width, height)

\* One iteration of the loop of compare: the planes of img2 have
\* width * height samples each, those of scale_data the length cached.
compare_iteration_size(scale_idx, scale_data, loc) ==
    LET img2 == IF scale_idx > 0 THEN downscale_by_2_size(loc.img) ELSE loc.img
        width == IF scale_idx > 0 THEN img2.width ELSE loc.width
        height == IF scale_idx > 0 THEN img2.height ELSE loc.height
    IN  [img |-> img2, width |-> width, height |-> height,
         mul |-> truncate_len(loc.mul, width * height),
         blur |-> Blur_shrink_to(loc.blur, width, height),
         msssim |-> Append(loc.msssim, [img2_planar |-> width * height,
                                        img1_planar |-> scale_data])]

\* new is given an image of any of the sizes; compare the same size or one
\* that is wider or higher by 1, in a build with or without unsafe-simd.
InitPair ==
    /\ pc = "idle"
    /\ self = NoReference
    /\ \E width \in PairDims, height \in PairDims, dw \in {0, 1}, dh \in {0, 1},
          unsafe_simd \in BOOLEAN :
          /\ dw + dh <= 1
          /\ given = <<Source(Sized(width, height)), Source(Sized(width + dw, height + dh)),
                       unsafe_simd>>
    /\ l = NoLocals
    /\ scale = 0
    /\ result = NoResult
    /\ seen = NoResult

\* self.compare(distorted) on the reference new has returned.
CompareSize ==
    /\ pc = "idle"
    /\ self.some
    /\ result.kind = "new"
    /\ LET e == compare_entry_size(self, given[2], given[3])
       IN  IF e.ok
           THEN /\ pc' = "compare"
                /\ l' = e.value
                /\ result' = NoResult
           ELSE /\ pc' = "idle"
                /\ l' = NoLocals
                /\ result' = Returned("compare", given[1], given[2], e, <<>>)
    /\ UNCHANGED <<self, given, scale, seen>>

CompareScaleSize ==
    /\ pc = "compare"
    /\ compare_continues(self, scale, l.width, l.height)
    /\ l' = compare_iteration_size(scale, self.scales[scale + 1], l)
    /\ scale' = scale + 1
    /\ UNCHANGED <<pc, self, given, result, seen>>

\* Ok(msssim.score()): the records are kept in place of the score.
CompareReturnSize ==
    /\ pc = "compare"
    /\ ~compare_continues(self, scale, l.width, l.height)
    /\ pc' = "idle"
    /\ l' = NoLocals
    /\ scale' = 0
    /\ result' = Returned("compare", given[1], given[2], Ok(Len(l.msssim)), l.msssim)
    /\ UNCHANGED <<self, given, seen>>

NextPair ==
    \/ NewSize
    \/ NewScaleSize
    \/ NewReturnSize
    \/ CompareSize
    \/ CompareScaleSize
    \/ CompareReturnSize

SpecPair == InitPair /\ [][NextPair]_vars

\* The size of the image of the scale s of an image of the size given.
RECURSIVE ScaleSize(_, _)
ScaleSize(img, s) == IF s = 0 THEN img ELSE downscale_by_2_size(ScaleSize(img, s - 1))

\* C27: at every scale of new and of compare, after the truncate and the
\* shrink_to, the three mul planes, the planes of the scale and the Blur's
\* width * height have the same length, the width * height of the scale;
\* so have the buffers the blur passes assert the length of.
C27_LengthsAgree ==
    /\ (pc = "new" /\ scale > 0) =>
           /\ l.mul = l.width * l.height
           /\ l.scales[scale] = l.width * l.height
           /\ l.blur.width * l.blur.height = l.width * l.height
    /\ (pc = "compare" /\ scale > 0) =>
           /\ l.mul = l.width * l.height
           /\ l.msssim[scale].img2_planar = l.width * l.height
           /\ l.msssim[scale].img1_planar = l.width * l.height
           /\ l.blur.width * l.blur.height = l.width * l.height
           /\ l.blur.scalar_temp = l.width * l.height
           /\ l.blur.transpose.temp = l.width * l.height
           /\ l.blur.transpose.transposed_input = l.width * l.height
           /\ l.blur.transpose.transposed_output = l.width * l.height

\* C27 witness: compare is at its third scale, 65x9 after 257x33 and
\* 129x17, with buffers truncated from 8481 samples to 585.
C27_Witness ==
    /\ pc = "compare" /\ scale = 3
    /\ given[2].linear.width = 257 /\ given[2].linear.height = 33
    /\ l.width = 65 /\ l.height = 9
    /\ l.mul = 585 /\ l.blur.transpose.temp = 585

\* C29: a compare whose image has the dimensions of the reference ends its
\* loop with exactly num_scales() records, and at every scale index the
\* width and height of its image are those of the reference at that scale
\* (whose cached planes have that many samples).
C29_CompareNeverBreaksEarly ==
    /\ (pc = "compare" /\ scale > 0) =>
           /\ Sized(l.width, l.height) = ScaleSize(given[1].linear, scale - 1)
           /\ self.scales[scale] = l.width * l.height
    /\ (pc = "compare" /\ scale < Len(self.scales)) => ~TooSmall(l.width, l.height)
    /\ (pc = "idle" /\ result.kind = "compare" /\ result.value.ok) =>
           /\ result.value.value = Len(self.scales)
           /\ Len(result.msssim) = Len(self.scales)

\* C29 witness: a compare on a 256x256 reference has returned with the 6
\* records of the 6 scales cached, the last of them 8x8.
C29_Witness ==
    /\ pc = "idle" /\ result.kind = "compare" /\ result.value.ok
    /\ given[1].linear = Sized(256, 256) /\ given[2].linear = Sized(256, 256)
    /\ Len(self.scales) = NUM_SCALES
    /\ Len(result.msssim) = NUM_SCALES
    /\ result.msssim[NUM_SCALES].img2_planar = MIN_SIZE * MIN_SIZE

====
